---- MODULE Spec2Model ----
(***************************************************************************)
(* Resilient aggregation layer of the expense tracker backend              *)
(* (backend/config/pesadb_fallbacks.py) over the PesaDB gateway             *)
(* (backend/config/pesadb.py).                                              *)
(*                                                                         *)
(* The store holds one table of transaction rows.  A call of               *)
(* count_rows_safe, sum_safe, avg_safe or aggregate_safe issues queries to  *)
(* the gateway; each query either fails with an error text or is answered   *)
(* from the table.  A call is one action: it records the queries it issued  *)
(* with their responses (trace) and how it ended (outcome).                 *)
(*                                                                         *)
(* Schema reconciliation (backend/services/database_initializer.py): the    *)
(* store (db) holds the tables of the application with the rows of users    *)
(* and categories; env is the deployment (the schema file, what the store   *)
(* version supports).  A call of initialize_database, create_tables_inline  *)
(* or check_users_table_schema is one action: run records the statements it *)
(* issued with their responses and its result, prev what the call before it *)
(* was.                                                                     *)
(*                                                                         *)
(* observed is a history of what the capability snapshot and the earlier   *)
(* aggregation calls saw of the store; inst holds the positions of process *)
(* instances that run schema initialization concurrently, one gateway      *)
(* statement per step.                                                     *)
(***************************************************************************)
EXTENDS Integers, Sequences, FiniteSets, TLC

VARIABLES table, pc, call, trace, outcome, env, db, run, prev, observed, inst

vars == <<table, pc, call, trace, outcome, env, db, run, prev, observed, inst>>

(***************************************************************************)
(* Bounds                                                                  *)
(***************************************************************************)
MaxRows == 2

(***************************************************************************)
(* Python values: None, numbers (as normalised fractions n/d) and strings. *)
(***************************************************************************)
Null == [d |-> 1, n |-> 0, s |-> "", t |-> "null"]

Num(k) == [d |-> 1, n |-> k, s |-> "", t |-> "num"]

Str(x) == [d |-> 1, n |-> 0, s |-> x, t |-> "str"]

Abs(k) == IF k < 0 THEN -k ELSE k

RECURSIVE Gcd(_, _)
Gcd(a, b) == IF b = 0 THEN a ELSE Gcd(b, a % b)

\* the float n/d, d > 0, in lowest terms
Frac(k, m) ==
    LET g == Gcd(Abs(k), m)
    IN  [d |-> m \div g, n |-> k \div g, s |-> "", t |-> "num"]

IsNum(v) == v.t = "num"

IsNone(v) == v.t = "null"

\* bool(v)
Truthy(v) ==
    CASE v.t = "null" -> FALSE
      [] v.t = "num" -> v.n # 0
      [] OTHER -> v.s # ""

\* a or b
PyOr(a, b) == IF Truthy(a) THEN a ELSE b

NumAdd(a, b) == Frac(a.n * b.d + b.n * a.d, a.d * b.d)

NumLt(a, b) == a.n * b.d < b.n * a.d

NumLe(a, b) == a.n * b.d <= b.n * a.d

\* dict.get(key) / dict.get(key, default) on a row map
Get(row, key, default) == IF key \in DOMAIN row THEN row[key] ELSE default

(***************************************************************************)
(* Error texts: sequences of words.  str(e).lower() lowercases every word; *)
(* 'p in text' is containment of the word sequence p.                       *)
(***************************************************************************)
LowerWord(w) ==
    CASE w = "COUNT" -> "count"
      [] w = "SUM" -> "sum"
      [] w = "AVG" -> "avg"
      [] w = "MIN" -> "min"
      [] w = "MAX" -> "max"
      [] w = "Syntax" -> "syntax"
      [] w = "Expected" -> "expected"
      [] w = "PesaDB" -> "pesadb"
      [] w = "Error" -> "error"
      [] w = "Connection" -> "connection"
      [] w = "Query" -> "query"
      [] w = "Table" -> "table"
      [] w = "Column" -> "column"
      [] w = "DESC" -> "desc"
      [] w = "Desc" -> "desc"
      [] w = "ASC" -> "asc"
      [] OTHER -> w

Lower(text) == [i \in 1..Len(text) |-> LowerWord(text[i])]

Contains(text, p) ==
    \E i \in 1..(Len(text) - Len(p) + 1) : SubSeq(text, i, i + Len(p) - 1) = p

\* messages of the store, as raised by query_db: "PesaDB Error: <message>"
SyntaxNear(f) == <<"PesaDB", "Error", "Syntax", "error", "near", f>>

ExpectedNear(f) == <<"PesaDB", "Error", "Expected", "identifier", "near", f>>

ExpectedGot(f) == <<"PesaDB", "Error", "Expected", "identifier", "got", f>>

SyntaxOther == <<"PesaDB", "Error", "Syntax", "error", "near", "WHERE">>

NotFound(f) == <<"PesaDB", "Error", "Table", "not", "found", f>>

\* aiohttp.ClientError and asyncio.TimeoutError as wrapped by query_db
ConnectionError == <<"PesaDB", "Connection", "Error", "cannot", "connect">>

TimeoutError == <<"PesaDB", "Query", "Error">>

ConnectivityTexts == {ConnectionError, TimeoutError}

NoText == <<>>

(***************************************************************************)
(* The store                                                               *)
(***************************************************************************)
Categories == {Null, Str("c1"), Str("c2")}

Amounts == {Null, Num(0), Num(1)}

Types == {Str("expense"), Str("income")}

RowType == [amount : Amounts, category_id : Categories, type : Types]

Tables == UNION {[1..k -> RowType] : k \in 0..MaxRows}

\* the WHERE texts callers pass: none, or type = 'expense'
WhereExpense == "type = 'expense'"

Wheres == {"", WhereExpense}

Matches(row, where) == where = "" \/ row.type = Str("expense")

RECURSIVE SelectSeq2(_, _)
SelectSeq2(rows, where) ==
    IF rows = <<>> THEN <<>>
    ELSE LET rest == SelectSeq2(Tail(rows), where)
         IN  IF Matches(Head(rows), where) THEN <<Head(rows)>> \o rest ELSE rest

Project(row, cols) == [c \in cols |-> row[c]]

\* SELECT <cols> FROM transactions [WHERE where]
Fetch(tbl, cols, where) ==
    LET m == SelectSeq2(tbl, where)
    IN  [i \in 1..Len(m) |-> Project(m[i], cols)]

RECURSIVE NonNull(_, _)
NonNull(rows, col) ==
    IF rows = <<>> THEN <<>>
    ELSE LET rest == NonNull(Tail(rows), col)
         IN  IF IsNone(Get(Head(rows), col, Null)) THEN rest
             ELSE <<Head(rows)[col]>> \o rest

RECURSIVE SumSeq(_)
SumSeq(vals) == IF vals = <<>> THEN Num(0) ELSE NumAdd(Head(vals), SumSeq(Tail(vals)))

(***************************************************************************)
(* Gateway responses                                                       *)
(***************************************************************************)
Ok(rows) == [err |-> NoText, ok |-> TRUE, rows |-> rows]

Err(text) == [err |-> text, ok |-> FALSE, rows |-> <<>>]

Sql(what, cols, where, group_by, having, order_by) ==
    [cols |-> cols, group_by |-> group_by, having |-> having,
     order_by |-> order_by, what |-> what, where |-> where]

Issued(sql, resp) == [resp |-> resp, sql |-> sql]

(***************************************************************************)
(* Outcomes of a call                                                      *)
(***************************************************************************)
NoOutcome == [err |-> NoText, kind |-> "none", rows |-> <<>>, val |-> Null]

Return(v) == [err |-> NoText, kind |-> "return", rows |-> <<>>, val |-> v]

ReturnRows(rs) == [err |-> NoText, kind |-> "return", rows |-> rs, val |-> Null]

Raise(text) == [err |-> text, kind |-> "raise", rows |-> <<>>, val |-> Null]

NoCall == [aggregates |-> <<>>, column |-> "", group_by |-> "", having |-> <<>>,
           op |-> "none", order_by |-> <<>>, where |-> ""]

(***************************************************************************)
(* The deployment and the store as the schema reconciler sees them          *)
(***************************************************************************)
\* RequiredTables with a dependent table ahead of the table it references
DependentsFirst ==
    <<"categories", "users", "transactions", "budgets", "sms_import_logs",
      "duplicate_logs", "status_checks">>

\* the required tables with the audit tables before the tables of the
\* application
AuditTablesFirst ==
    <<"status_checks", "users", "categories", "transactions", "budgets",
      "sms_import_logs", "duplicate_logs">>

\* database_initializer.py lines 467-572 and 723-726
RequiredTables ==
    <<"users", "categories", "transactions", "budgets", "sms_import_logs",
      "duplicate_logs", "status_checks">>

\* the columns of users that the stale-schema check probes, lines 105 and 114
AuthColumns == {"email", "password_hash"}

\* lines 679-692
DefaultCategories ==
    <<"cat-food", "cat-transport", "cat-shopping", "cat-bills", "cat-entertainment",
      "cat-health", "cat-education", "cat-airtime", "cat-transfers", "cat-savings",
      "cat-income", "cat-other">>

\* a store without any table
Pristine == [cats |-> {}, tables |-> {}, user_cols |-> {}, users |-> {}]

\* the text the store gives when a referenced table is missing
ForeignKeyError == <<"PesaDB", "Error", "Foreign", "key", "constraint", "failed">>

ReferenceMissing == <<"PesaDB", "Error", "Referenced", "table", "does", "not", "exist">>

\* file: scripts/init_pesadb.sql as load_sql_from_file finds it
DefaultEnv == [count_native |-> TRUE, file |-> "absent", ref_text |-> ForeignKeyError]

NoFault == [kind |-> "none", on |-> ""]

NoResult ==
    [categories_seeded |-> 0, errors |-> <<>>, migrated |-> FALSE,
     schema |-> [exists |-> FALSE, has_correct_schema |-> FALSE, has_email |-> FALSE,
                 has_password_hash |-> FALSE, is_old_schema |-> FALSE,
                 needs_migration |-> FALSE],
     success |-> FALSE, tables_created |-> 0, tables_skipped |-> 0,
     user_created |-> FALSE, verified |-> FALSE]

NoRun ==
    [before |-> Pristine, create_default_user |-> FALSE, fault |-> NoFault,
     op |-> "none", result |-> NoResult, seed_categories |-> FALSE, steps |-> <<>>]

\* whether the call before was an initialize_database without a fault and
\* with the arguments of this call
NoPrev == [same_call |-> FALSE]

\* what was seen of the store's support of native aggregates, kept by the
\* model only: by the capability snapshot, by the aggregation call that
\* ended last and by the one before it
NothingObserved == [by_call |-> "nothing", by_call_before |-> "nothing",
                    by_snapshot |-> "nothing"]

\* the process instances that run schema initialization side by side
NoInstances == <<>>

Init ==
    /\ table \in Tables
    /\ pc = "idle"
    /\ call = NoCall
    /\ trace = <<>>
    /\ outcome = NoOutcome
    /\ env = DefaultEnv
    /\ db = Pristine
    /\ run = NoRun
    /\ prev = NoPrev
    /\ observed = NothingObserved
    /\ inst = NoInstances

\* Finish after a call whose fallback consumed the rows it fetched
FinishConsumingRows(c, tr, out) ==
    /\ pc' = "done"
    /\ call' = c
    /\ trace' = tr
    /\ outcome' = out
    /\ table' = IF Len(tr) > 1 THEN <<>> ELSE table
    /\ UNCHANGED <<env, db, run, prev, observed, inst>>

\* lines 28-157, 160-281, 284-433: the call has sent its queries through
\* query_func, every one of them a SELECT, and returns or raises; nothing is
\* written to the store
Finish(c, tr, out) ==
    /\ pc' = "done"
    /\ call' = c
    /\ trace' = tr
    /\ outcome' = out
    /\ UNCHANGED <<table, env, db, run, prev, observed, inst>>

\* the caller has taken the result; the aggregation layer keeps nothing
Consume ==
    /\ pc = "done"
    /\ pc' = "idle"
    /\ call' = NoCall
    /\ trace' = <<>>
    /\ outcome' = NoOutcome
    /\ UNCHANGED <<table, env, db, run, prev, observed, inst>>

(***************************************************************************)
(* What the gateway does with one query: fail with a text, or answer.      *)
(* shape selects among the result layouts a store version may produce.      *)
(***************************************************************************)
Fails(text) == [err |-> text, fail |-> TRUE, shape |-> ""]

Answers(shape) == [err |-> NoText, fail |-> FALSE, shape |-> shape]

SelectSql(cols, where) == Sql("SELECT", cols, where, "", <<>>, <<>>)

\* a fetch of rows: SELECT <cols> FROM transactions [WHERE where]
QueryFetch(tbl, cols, where, b) ==
    IF b.fail THEN Err(b.err)
    ELSE Ok(IF cols = {"*"} THEN SelectSeq2(tbl, where) ELSE Fetch(tbl, cols, where))

FetchErrTexts == {ConnectionError, NotFound("transactions")}

FetchBehaviors == {Answers("rows")} \cup {Fails(e) : e \in FetchErrTexts}

(***************************************************************************)
(* count_rows_safe                                                         *)
(***************************************************************************)
CountSql(where) == Sql("COUNT(*) as count", {}, where, "", <<>>, <<>>)

CountShapes == {"count", "COUNT(*)", "cnt", "empty", "null", "text"}

\* SELECT COUNT(*) as count FROM transactions [WHERE where]
QueryCount(tbl, where, b) ==
    LET k == Len(SelectSeq2(tbl, where))
    IN  IF b.fail THEN Err(b.err)
        ELSE CASE b.shape = "empty" -> Ok(<<>>)
               [] b.shape = "null" -> Ok(<<[count |-> Null]>>)
               [] b.shape = "text" -> Ok(<<[cnt |-> Str("x")]>>)
               [] OTHER -> Ok(<<(b.shape :> Num(k))>>)

\* the failures of a native query that uses function f
NativeErrTexts(f) ==
    {SyntaxNear(f), ExpectedNear(f), ExpectedGot(f), NotFound(LowerWord(f)),
     SyntaxOther, ConnectionError, TimeoutError}

CountErrTexts == NativeErrTexts("COUNT")

CountBehaviors ==
    {Answers(sh) : sh \in CountShapes} \cup {Fails(e) : e \in CountErrTexts}

ParsingFailed == <<"COUNT", "result", "parsing", "failed">>

IntTypeError == <<"int()", "argument", "must", "be", "a", "number">>

IntValueError == <<"invalid", "literal", "for", "int()">>

\* int(v)
IntOf(v) ==
    CASE v.t = "null" -> Raise(IntTypeError)
      [] v.t = "str" -> Raise(IntValueError)
      [] OTHER -> Return(Num(IF v.n >= 0 THEN v.n \div v.d ELSE -((-v.n) \div v.d)))

\* ParseCount with the count read as row.get('count') or row.get('COUNT(*)'),
\* the idiom of sum_safe and avg_safe: a count of 0 is not found
ParseCountTruthy(result) ==
    IF result # <<>>
    THEN LET row == result[1]
             c == PyOr(Get(row, "count", Null), Get(row, "COUNT(*)", Null))
         IN  IF Truthy(c) THEN IntOf(c)
             ELSE IF \E k \in DOMAIN row : Truthy(row[k]) /\ IsNum(row[k])
                  THEN IntOf(row[CHOOSE k \in DOMAIN row : Truthy(row[k]) /\ IsNum(row[k])])
                  ELSE Raise(ParsingFailed)
    ELSE Raise(ParsingFailed)

\* lines 77-98: the count carried by the native result, or the error raised
ParseCount(result) ==
    IF result # <<>>
    THEN LET row == result[1]
         IN  IF "count" \in DOMAIN row THEN IntOf(row["count"])
             ELSE IF "COUNT(*)" \in DOMAIN row THEN IntOf(row["COUNT(*)"])
             ELSE IF \E k \in DOMAIN row : IsNum(row[k])
                  THEN IntOf(row[CHOOSE k \in DOMAIN row : IsNum(row[k])])
                  ELSE Raise(ParsingFailed)
    ELSE Raise(ParsingFailed)

\* IsCountError without the test for a syntax signature
IsCountErrorAnyCount(msg) == Contains(msg, <<"count">>)

\* lines 107-109, on the lowercased text
IsCountError(msg) ==
    \/ Contains(msg, <<"expected", "identifier", "near">>) /\ Contains(msg, <<"count">>)
    \/ Contains(msg, <<"count">>) /\ Contains(msg, <<"syntax">>)

Result(tr, out) == [outcome |-> out, trace |-> tr]

\* CountRowsRun with the rows of the last tier filtered in memory, as the
\* comment of lines 150-151 announces
CountRowsRunFiltered(tbl, where, b1, b2, b3) ==
    LET q1 == CountSql(where)
        r1 == QueryCount(tbl, where, b1)
        s1 == IF r1.ok THEN ParseCount(r1.rows) ELSE Raise(r1.err)
        q2 == SelectSql({"*"}, where)
        r2 == QueryFetch(tbl, {"*"}, where, b2)
        q3 == SelectSql({"*"}, "")
        r3 == QueryFetch(tbl, {"*"}, "", b3)
    IN  IF s1.kind = "return" THEN Result(<<Issued(q1, r1)>>, s1)
        ELSE IF ~IsCountError(Lower(s1.err)) THEN Result(<<Issued(q1, r1)>>, s1)
        ELSE IF r2.ok
             THEN Result(<<Issued(q1, r1), Issued(q2, r2)>>, Return(Num(Len(r2.rows))))
             ELSE IF r3.ok
                  THEN Result(<<Issued(q1, r1), Issued(q2, r2), Issued(q3, r3)>>,
                              Return(Num(Len(SelectSeq2(r3.rows, where)))))
                  ELSE Result(<<Issued(q1, r1), Issued(q2, r2), Issued(q3, r3)>>,
                              Return(Num(0)))

\* one call of count_rows_safe against table tbl; b1, b2, b3 are what the
\* gateway does with the first, second and third query the call issues
CountRowsRun(tbl, where, b1, b2, b3) ==
    LET q1 == CountSql(where)
        r1 == QueryCount(tbl, where, b1)
        s1 == IF r1.ok THEN ParseCount(r1.rows) ELSE Raise(r1.err)
        q2 == SelectSql({"*"}, where)
        r2 == QueryFetch(tbl, {"*"}, where, b2)
        q3 == SelectSql({"*"}, "")
        r3 == QueryFetch(tbl, {"*"}, "", b3)
    IN  IF s1.kind = "return" THEN Result(<<Issued(q1, r1)>>, s1)
        ELSE IF ~IsCountError(Lower(s1.err)) THEN Result(<<Issued(q1, r1)>>, s1)
        ELSE IF r2.ok
             THEN Result(<<Issued(q1, r1), Issued(q2, r2)>>, Return(Num(Len(r2.rows))))
             ELSE IF r3.ok
                  THEN Result(<<Issued(q1, r1), Issued(q2, r2), Issued(q3, r3)>>,
                              Return(Num(Len(r3.rows))))
                  ELSE Result(<<Issued(q1, r1), Issued(q2, r2), Issued(q3, r3)>>,
                              Return(Num(0)))

CountCall(where) == [NoCall EXCEPT !.op = "count_rows", !.where = where]

count_rows_safe ==
    /\ pc = "idle"
    /\ \E where \in Wheres, b1 \in CountBehaviors, b2, b3 \in FetchBehaviors :
         LET r == CountRowsRun(table, where, b1, b2, b3)
         IN  Finish(CountCall(where), r.trace, r.outcome)

(***************************************************************************)
(* sum_safe                                                                *)
(***************************************************************************)
Columns == {"amount"}

SumSql(column, where) == Sql("SUM(" \o column \o ") as total", {}, where, "", <<>>, <<>>)

\* SQL SUM / AVG over the non-null values; NULL when there is none
SqlSum(vals) == IF vals = <<>> THEN Null ELSE SumSeq(vals)

SqlAvg(vals) ==
    IF vals = <<>> THEN Null
    ELSE LET t == SumSeq(vals) IN Frac(t.n, t.d * Len(vals))

\* SELECT <f>(column) as <alias> FROM transactions [WHERE where]
\* with shape "empty" the store leaves out the row of a NULL result
QueryScalar(v, alias, b) ==
    IF b.fail THEN Err(b.err)
    ELSE IF b.shape = "empty" THEN (IF IsNone(v) THEN Ok(<<>>) ELSE Ok(<<(alias :> v)>>))
    ELSE Ok(<<(b.shape :> v)>>)

SumShapes(column) == {"total", "SUM(" \o column \o ")", "empty"}

SumBehaviors(column) ==
    {Answers(sh) : sh \in SumShapes(column)} \cup {Fails(e) : e \in NativeErrTexts("SUM")}

\* line 202, on the lowercased text
IsSumError(msg) ==
    /\ Contains(msg, <<"sum">>)
    /\ Contains(msg, <<"syntax">>) \/ Contains(msg, <<"expected", "identifier">>)

\* lines 191-197
ParseSum(result, column) ==
    IF result # <<>>
    THEN LET row == result[1]
         IN  Return(PyOr(PyOr(Get(row, "total", Null),
                              Get(row, "SUM(" \o column \o ")", Null)), Num(0)))
    ELSE Return(Num(0))

SumRun(tbl, column, where, b1, b2) ==
    LET q1 == SumSql(column, where)
        r1 == QueryScalar(SqlSum(NonNull(SelectSeq2(tbl, where), column)), "total", b1)
        q2 == SelectSql({column}, where)
        r2 == QueryFetch(tbl, {column}, where, b2)
    IN  IF r1.ok THEN Result(<<Issued(q1, r1)>>, ParseSum(r1.rows, column))
        ELSE IF ~IsSumError(Lower(r1.err)) THEN Result(<<Issued(q1, r1)>>, Raise(r1.err))
        ELSE IF ~r2.ok THEN Result(<<Issued(q1, r1), Issued(q2, r2)>>, Raise(r2.err))
        ELSE IF r2.rows = <<>>
             THEN Result(<<Issued(q1, r1), Issued(q2, r2)>>, Return(Num(0)))
             ELSE Result(<<Issued(q1, r1), Issued(q2, r2)>>,
                         Return(SumSeq(NonNull(r2.rows, column))))

SumCall(column, where) == [NoCall EXCEPT !.op = "sum_over", !.column = column, !.where = where]

sum_safe ==
    /\ pc = "idle"
    /\ \E column \in Columns, where \in Wheres :
         \E b1 \in SumBehaviors(column), b2 \in FetchBehaviors :
           LET r == SumRun(table, column, where, b1, b2)
           IN  Finish(SumCall(column, where), r.trace, r.outcome)

(***************************************************************************)
(* avg_safe                                                                *)
(***************************************************************************)
AvgSql(column, where) == Sql("AVG(" \o column \o ") as average", {}, where, "", <<>>, <<>>)

AvgShapes(column) == {"average", "AVG(" \o column \o ")", "empty"}

AvgBehaviors(column) ==
    {Answers(sh) : sh \in AvgShapes(column)} \cup {Fails(e) : e \in NativeErrTexts("AVG")}

\* line 259, on the lowercased text
IsAvgError(msg) ==
    /\ Contains(msg, <<"avg">>)
    /\ Contains(msg, <<"syntax">>) \/ Contains(msg, <<"expected", "identifier">>)

\* lines 247-254
ParseAvg(result, column) ==
    IF result # <<>>
    THEN LET row == result[1]
             avg == PyOr(Get(row, "average", Null), Get(row, "AVG(" \o column \o ")", Null))
         IN  IF ~IsNone(avg) THEN Return(avg) ELSE Return(Null)
    ELSE Return(Null)

\* MemoryAvg with the default of sum_safe for an empty result
MemoryAvgZero(result, column) ==
    IF result = <<>> THEN Num(0)
    ELSE LET values == NonNull(result, column)
         IN  IF values = <<>> THEN Null
             ELSE LET t == SumSeq(values) IN Frac(t.n, t.d * Len(values))

\* lines 269-279
MemoryAvg(result, column) ==
    IF result = <<>> THEN Null
    ELSE LET values == NonNull(result, column)
         IN  IF values = <<>> THEN Null
             ELSE LET t == SumSeq(values) IN Frac(t.n, t.d * Len(values))

AvgRun(tbl, column, where, b1, b2) ==
    LET q1 == AvgSql(column, where)
        r1 == QueryScalar(SqlAvg(NonNull(SelectSeq2(tbl, where), column)), "average", b1)
        q2 == SelectSql({column}, where)
        r2 == QueryFetch(tbl, {column}, where, b2)
    IN  IF r1.ok THEN Result(<<Issued(q1, r1)>>, ParseAvg(r1.rows, column))
        ELSE IF ~IsAvgError(Lower(r1.err)) THEN Result(<<Issued(q1, r1)>>, Raise(r1.err))
        ELSE IF ~r2.ok THEN Result(<<Issued(q1, r1), Issued(q2, r2)>>, Raise(r2.err))
        ELSE Result(<<Issued(q1, r1), Issued(q2, r2)>>, Return(MemoryAvg(r2.rows, column)))

AvgCall(column, where) == [NoCall EXCEPT !.op = "avg_over", !.column = column, !.where = where]

avg_safe ==
    /\ pc = "idle"
    /\ \E column \in Columns, where \in Wheres :
         \E b1 \in AvgBehaviors(column), b2 \in FetchBehaviors :
           LET r == AvgRun(table, column, where, b1, b2)
           IN  Finish(AvgCall(column, where), r.trace, r.outcome)

(***************************************************************************)
(* The scalar operations                                                   *)
(***************************************************************************)
NextScalar == count_rows_safe \/ sum_safe \/ avg_safe \/ Consume

SpecScalar == Init /\ [][NextScalar]_vars

(***************************************************************************)
(* aggregate_safe                                                          *)
(***************************************************************************)
\* lines 328, 405, 429: f"{func.lower()}_{col.replace('*', 'all')}"
AliasOf(func, col) == LowerWord(func) \o "_" \o (IF col = "*" THEN "all" ELSE col)

Aliases(aggregates) ==
    {AliasOf(aggregates[i][1], aggregates[i][2]) : i \in 1..Len(aggregates)}

\* HAVING and ORDER BY texts are sequences of lexemes: a word (\w+), a run
\* of comparison characters ([><=!]+), an unsigned decimal number, or
\* anything else (a sign, a parenthesis)
Word(x) == [k |-> "word", s |-> x, v |-> Null]

Op(x) == [k |-> "op", s |-> x, v |-> Null]

Number(k) == [k |-> "num", s |-> "", v |-> Num(k)]

Other(x) == [k |-> "other", s |-> x, v |-> Null]

RECURSIVE MinSeq(_)
MinSeq(vals) ==
    IF Len(vals) = 1 THEN Head(vals)
    ELSE LET m == MinSeq(Tail(vals)) IN IF NumLt(m, Head(vals)) THEN m ELSE Head(vals)

RECURSIVE MaxSeq(_)
MaxSeq(vals) ==
    IF Len(vals) = 1 THEN Head(vals)
    ELSE LET m == MaxSeq(Tail(vals)) IN IF NumLt(Head(vals), m) THEN m ELSE Head(vals)

\* lines 436-465; '*' is passed with COUNT only, func is one of the five kinds
calculate_aggregate(func, col, rows) ==
    IF func = "COUNT"
    THEN IF col = "*" THEN Num(Len(rows)) ELSE Num(Len(NonNull(rows, col)))
    ELSE LET values == NonNull(rows, col)
         IN  IF values = <<>> THEN Null
             ELSE CASE func = "SUM" -> SumSeq(values)
                    [] func = "AVG" ->
                         LET t == SumSeq(values) IN Frac(t.n, t.d * Len(values))
                    [] func = "MIN" -> MinSeq(values)
                    [] OTHER -> MaxSeq(values)

\* HavingCompare with > and >= exchanged
HavingCompareSwapped(op, col_val, val) ==
    CASE op = ">" -> NumLe(val, col_val)
      [] op = ">=" -> NumLt(val, col_val)
      [] op = "<" -> NumLt(col_val, val)
      [] op = "<=" -> NumLe(col_val, val)
      [] op \in {"=", "=="} -> col_val = val
      [] op \in {"!=", "<>"} -> col_val # val
      [] OTHER -> TRUE

\* lines 491-502: the comparison col_val <op> val; an operator text outside
\* the eight falls through to the final return True
HavingCompare(op, col_val, val) ==
    CASE op = ">" -> NumLt(val, col_val)
      [] op = ">=" -> NumLe(val, col_val)
      [] op = "<" -> NumLt(col_val, val)
      [] op = "<=" -> NumLe(col_val, val)
      [] op \in {"=", "=="} -> col_val = val
      [] op \in {"!=", "<>"} -> col_val # val
      [] OTHER -> TRUE

\* line 479: re.match of (\w+)\s*([><=!]+)\s*(\d+(?:\.\d+)?) at the start of
\* the stripped text; what follows the number is not looked at
HavingMatch(having) ==
    /\ Len(having) >= 3
    /\ having[1].k = "word"
    /\ having[2].k = "op"
    /\ having[3].k = "num"

\* lines 468-506
evaluate_having(having, row) ==
    IF ~HavingMatch(having) THEN TRUE
    ELSE LET col_val == Get(row, having[1].s, Num(0))
         IN  IF col_val.t = "str" THEN TRUE
             ELSE HavingCompare(having[2].s,
                                IF IsNone(col_val) THEN Num(0) ELSE col_val,
                                having[3].v)

\* the distinct values of column col, in order of first occurrence
RECURSIVE GroupKeys(_, _, _)
GroupKeys(rows, col, seen) ==
    IF rows = <<>> THEN seen
    ELSE LET key == Head(rows)[col]
         IN  GroupKeys(Tail(rows), col,
                       IF \E i \in 1..Len(seen) : seen[i] = key
                       THEN seen ELSE Append(seen, key))

RECURSIVE RowsOf(_, _, _)
RowsOf(rows, col, key) ==
    IF rows = <<>> THEN <<>>
    ELSE LET rest == RowsOf(Tail(rows), col, key)
         IN  IF Head(rows)[col] = key THEN <<Head(rows)>> \o rest ELSE rest

\* lines 402-406 and 427-430: one result row
ResultRow(aggregates, group_by, key, rows) ==
    [a \in Aliases(aggregates) \cup (IF group_by = "" THEN {} ELSE {group_by}) |->
        IF a = group_by THEN key
        ELSE LET i == CHOOSE j \in 1..Len(aggregates) :
                          AliasOf(aggregates[j][1], aggregates[j][2]) = a
             IN  calculate_aggregate(aggregates[i][1], aggregates[i][2], rows)]

RECURSIVE KeepHaving(_, _)
KeepHaving(rows, having) ==
    IF rows = <<>> THEN <<>>
    ELSE LET rest == KeepHaving(Tail(rows), having)
         IN  IF having # <<>> /\ ~evaluate_having(having, Head(rows)) THEN rest
             ELSE <<Head(rows)>> \o rest

\* order of the values a sort compares; strings order by their rank
StrRank(x) == CASE x = "c1" -> 1 [] x = "c2" -> 2 [] OTHER -> 0

KeyLt(a, b) == IF a.t = "str" THEN StrRank(a.s) < StrRank(b.s) ELSE NumLt(a, b)

\* list.sort is stable, also with reverse=True
RECURSIVE InsertSorted(_, _, _, _)
InsertSorted(sorted, x, col, reverse) ==
    IF sorted = <<>> THEN <<x>>
    ELSE LET kx == Get(x, col, Num(0))
             kh == Get(Head(sorted), col, Num(0))
         IN  IF (IF reverse THEN KeyLt(kh, kx) ELSE KeyLt(kx, kh))
             THEN <<x>> \o sorted
             ELSE <<Head(sorted)>> \o InsertSorted(Tail(sorted), x, col, reverse)

RECURSIVE SortRows(_, _, _)
SortRows(rows, col, reverse) ==
    IF rows = <<>> THEN <<>>
    ELSE InsertSorted(SortRows(SubSeq(rows, 1, Len(rows) - 1), col, reverse),
                      rows[Len(rows)], col, reverse)

\* a sort of two or more rows compares every key with another one; None
\* compares with nothing and a string does not compare with a number
SortRaises(rows, col) ==
    /\ Len(rows) >= 2
    /\ \/ \E i \in 1..Len(rows) : IsNone(Get(rows[i], col, Num(0)))
       \/ \E i, j \in 1..Len(rows) : Get(rows[i], col, Num(0)).t # Get(rows[j], col, Num(0)).t

SortTypeError == <<"'<'", "not", "supported", "between", "instances">>

\* line 420: 'desc' in order_by.lower()
HasDesc(order_by) == \E i \in 1..Len(order_by) : LowerWord(order_by[i]) = "desc"

\* lines 416-424
ApplyOrder(results, order_by) ==
    IF order_by = <<>> THEN ReturnRows(results)
    ELSE IF SortRaises(results, order_by[1]) THEN Raise(SortTypeError)
    ELSE ReturnRows(SortRows(results, order_by[1], HasDesc(order_by)))

\* MemoryAggregate with one group per fetched row, equal values not merged
MemoryAggregatePerRow(rows, aggregates, group_by, having, order_by) ==
    IF group_by # ""
    THEN LET keys == [i \in 1..Len(rows) |-> rows[i][group_by]]
             all == [i \in 1..Len(keys) |->
                        ResultRow(aggregates, group_by, keys[i],
                                  RowsOf(rows, group_by, keys[i]))]
         IN  ApplyOrder(KeepHaving(all, having), order_by)
    ELSE ReturnRows(<<ResultRow(aggregates, "", Null, rows)>>)

\* lines 393-433: the aggregation in memory over the fetched rows
MemoryAggregate(rows, aggregates, group_by, having, order_by) ==
    IF group_by # ""
    THEN LET keys == GroupKeys(rows, group_by, <<>>)
             all == [i \in 1..Len(keys) |->
                        ResultRow(aggregates, group_by, keys[i],
                                  RowsOf(rows, group_by, keys[i]))]
         IN  ApplyOrder(KeepHaving(all, having), order_by)
    ELSE ReturnRows(<<ResultRow(aggregates, "", Null, rows)>>)

\* lines 360-363, on the lowercased text
IsAggregateError(aggregates, msg) ==
    /\ \E i \in 1..Len(aggregates) : Contains(msg, <<LowerWord(aggregates[i][1])>>)
    /\ Contains(msg, <<"syntax">>) \/ Contains(msg, <<"expected", "identifier">>)

\* lines 375-383
ColumnsNeeded(aggregates, group_by) ==
    LET cols == {aggregates[i][2] : i \in 1..Len(aggregates)} \ {"*"}
        need == cols \cup (IF group_by = "" THEN {} ELSE {group_by})
    IN  IF need = {} THEN {"*"} ELSE need

\* what the store computes for FUNC(col) over a set of rows (SQL: nulls are
\* skipped, an aggregate other than COUNT over no value is NULL)
SqlValue(func, col, rows) ==
    LET vals == IF col = "*" THEN <<>> ELSE NonNull(rows, col)
    IN  CASE func = "COUNT" -> IF col = "*" THEN Num(Len(rows)) ELSE Num(Len(vals))
          [] func = "SUM" -> SqlSum(vals)
          [] func = "AVG" -> SqlAvg(vals)
          [] func = "MIN" -> IF vals = <<>> THEN Null ELSE MinSeq(vals)
          [] OTHER -> IF vals = <<>> THEN Null ELSE MaxSeq(vals)

SqlRow(aggregates, group_by, key, rows) ==
    [a \in Aliases(aggregates) \cup (IF group_by = "" THEN {} ELSE {group_by}) |->
        IF a = group_by THEN key
        ELSE LET i == CHOOSE j \in 1..Len(aggregates) :
                          AliasOf(aggregates[j][1], aggregates[j][2]) = a
             IN  SqlValue(aggregates[i][1], aggregates[i][2], rows)]

ComparisonOps == {">", ">=", "<", "<=", "=", "==", "!=", "<>"}

\* the HAVING and ORDER BY texts the store can evaluate: one comparison of
\* a selected alias with a number; one selected column, optionally ASC/DESC
StoreAccepts(a) ==
    LET keys == Aliases(a.aggregates) \cup {a.group_by}
    IN  /\ \/ a.having = <<>>
           \/ /\ a.group_by # ""
              /\ Len(a.having) = 3
              /\ HavingMatch(a.having)
              /\ a.having[1].s \in keys
              /\ a.having[2].s \in ComparisonOps
        /\ \/ a.order_by = <<>>
           \/ a.group_by # "" /\ a.order_by[1] \in keys

RECURSIVE SqlKeep(_, _)
SqlKeep(rows, having) ==
    IF rows = <<>> THEN <<>>
    ELSE LET rest == SqlKeep(Tail(rows), having)
             v == Head(rows)[having[1].s]
         IN  IF IsNum(v) /\ HavingCompare(having[2].s, v, having[3].v)
             THEN <<Head(rows)>> \o rest ELSE rest

RECURSIVE NullKeyed(_, _, _)
NullKeyed(rows, col, isnull) ==
    IF rows = <<>> THEN <<>>
    ELSE LET rest == NullKeyed(Tail(rows), col, isnull)
         IN  IF IsNone(Head(rows)[col]) = isnull THEN <<Head(rows)>> \o rest ELSE rest

\* ORDER BY of the store: NULL is the smallest value
SqlOrder(rows, order_by) ==
    IF order_by = <<>> THEN rows
    ELSE LET nulls == NullKeyed(rows, order_by[1], TRUE)
             rest == SortRows(NullKeyed(rows, order_by[1], FALSE), order_by[1],
                              HasDesc(order_by))
         IN  IF HasDesc(order_by) THEN rest \o nulls ELSE nulls \o rest

UnknownColumn == <<"PesaDB", "Error", "Column", "not", "found">>

\* SELECT [group_by,] FUNC(col) as alias, ... FROM transactions [WHERE ...]
\*        [GROUP BY ...] [HAVING ...] [ORDER BY ...]
QueryAggregate(tbl, a, b) ==
    LET m == SelectSeq2(tbl, a.where)
        keys == GroupKeys(m, a.group_by, <<>>)
        groups == [i \in 1..Len(keys) |->
                      SqlRow(a.aggregates, a.group_by, keys[i], RowsOf(m, a.group_by, keys[i]))]
    IN  IF b.fail THEN Err(b.err)
        ELSE IF ~StoreAccepts(a) THEN Err(UnknownColumn)
        ELSE IF a.group_by = "" THEN Ok(<<SqlRow(a.aggregates, "", Null, m)>>)
        ELSE Ok(SqlOrder(IF a.having = <<>> THEN groups ELSE SqlKeep(groups, a.having),
                         a.order_by))

AggSql(a) ==
    Sql("AGGREGATE", Aliases(a.aggregates) \cup (IF a.group_by = "" THEN {} ELSE {a.group_by}),
        a.where, a.group_by, a.having, a.order_by)

\* one call of aggregate_safe; b1, b2 are what the gateway does with the
\* native query and with the fetch of the fallback path
AggregateRun(tbl, a, b1, b2) ==
    LET q1 == AggSql(a)
        r1 == QueryAggregate(tbl, a, b1)
        cols == ColumnsNeeded(a.aggregates, a.group_by)
        q2 == SelectSql(cols, a.where)
        r2 == QueryFetch(tbl, cols, a.where, b2)
    IN  IF r1.ok THEN Result(<<Issued(q1, r1)>>, ReturnRows(r1.rows))
        ELSE IF ~IsAggregateError(a.aggregates, Lower(r1.err))
             THEN Result(<<Issued(q1, r1)>>, Raise(r1.err))
        ELSE IF ~r2.ok THEN Result(<<Issued(q1, r1), Issued(q2, r2)>>, Raise(r2.err))
        ELSE IF r2.rows = <<>> THEN Result(<<Issued(q1, r1), Issued(q2, r2)>>, ReturnRows(<<>>))
        ELSE Result(<<Issued(q1, r1), Issued(q2, r2)>>,
                    MemoryAggregate(r2.rows, a.aggregates, a.group_by, a.having, a.order_by))

AggCall(a) ==
    [NoCall EXCEPT !.op = "aggregate", !.where = a.where, !.aggregates = a.aggregates,
                   !.group_by = a.group_by, !.having = a.having, !.order_by = a.order_by]

AggregateWith(args, B1, B2) ==
    /\ pc = "idle"
    /\ \E a \in args, b1 \in B1, b2 \in B2 :
         LET r == AggregateRun(table, a, b1, b2)
         IN  Finish(AggCall(a), r.trace, r.outcome)

CountAll == <<"COUNT", "*">>

SumAmount == <<"SUM", "amount">>

AggLists == {<<CountAll>>, <<CountAll, SumAmount>>, <<<<"AVG", "amount">>, <<"MAX", "amount">>>>}

HavingCount == <<Word("count_all"), Op(">"), Number(1)>>

HavingCompound == HavingCount \o <<Word("AND"), Word("x"), Op("<"), Number(5)>>

\* the calls of the application: ungrouped, or grouped by category with an
\* optional HAVING and ORDER BY
AggArgs ==
    [aggregates : AggLists, group_by : {""}, having : {<<>>}, order_by : {<<>>},
     where : Wheres]
    \cup
    [aggregates : AggLists, group_by : {"category_id"}, having : {<<>>, HavingCount},
     order_by : {<<>>, <<"sum_amount", "DESC">>}, where : Wheres]

AggErrTexts == NativeErrTexts("COUNT") \cup {SyntaxNear("SUM"), ExpectedGot("MAX")}

AggBehaviors == {Answers("rows")} \cup {Fails(e) : e \in AggErrTexts}

aggregate_safe == AggregateWith(AggArgs, AggBehaviors, FetchBehaviors)

(***************************************************************************)
(* The four operations of the aggregation layer                            *)
(***************************************************************************)
Next == count_rows_safe \/ sum_safe \/ avg_safe \/ aggregate_safe \/ Consume

Spec == Init /\ [][Next]_vars

(***************************************************************************)
(* Grouped aggregation in memory with a HAVING text                        *)
(***************************************************************************)
HavingAliases == {"count_all", "sum_amount"}

HavingNumbers == {0, 1}

SimpleHavings ==
    {<<Word(al), Op(o), Number(k)>> : al \in HavingAliases, o \in ComparisonOps,
                                      k \in HavingNumbers}

\* texts that are not one comparison: a second predicate after AND, a
\* negative number, a function call, an operator that is none of the eight
OtherHavings ==
    {HavingCompound,
     <<Word("count_all"), Op(">"), Other("-"), Number(1)>>,
     <<Word("COUNT"), Other("("), Other("*"), Other(")"), Op(">"), Number(1)>>,
     <<Word("count_all"), Op("=>"), Number(1)>>}

HavingArgs ==
    [aggregates : {<<CountAll, SumAmount>>}, group_by : {"category_id"},
     having : SimpleHavings \cup OtherHavings, order_by : {<<>>}, where : Wheres]

aggregate_having ==
    AggregateWith(HavingArgs, {Answers("rows"), Fails(SyntaxNear("COUNT"))}, {Answers("rows")})

NextHaving == aggregate_having \/ Consume

SpecHaving == Init /\ [][NextHaving]_vars

(***************************************************************************)
(* Properties                                                              *)
(***************************************************************************)
Done(op) == pc = "done" /\ call.op = op

\* the call went on to the in-memory path after its native query
FallbackTaken == Len(trace) >= 2

Range(f) == {f[i] : i \in 1..Len(f)}

\* the rows of the table the call's WHERE text selects
Matching == SelectSeq2(table, call.where)

\* a HAVING text of exactly the shape <alias> <operator> <number>
ExactShape(h) == Len(h) = 3 /\ h[1].k = "word" /\ h[2].k = "op" /\ h[3].k = "num"

\* the groups of the fetched rows with their aggregates, before any HAVING
GroupsFetched ==
    MemoryAggregate(trace[2].resp.rows, call.aggregates, call.group_by, <<>>, <<>>).rows

GroupedFallbackReturn ==
    /\ Done("aggregate")
    /\ call.group_by # ""
    /\ FallbackTaken
    /\ outcome.kind = "return"
    /\ trace[2].resp.rows # <<>>

\* C1: in the fallback path of a grouped aggregate, a HAVING text that is
\* not exactly <alias> <operator> <number> (a compound predicate such as
\* count_all > 1 AND x < 5) filters nothing: every group is returned
C1_UnparsableHavingKeepsAll ==
    (GroupedFallbackReturn /\ call.having # <<>> /\ ~ExactShape(call.having))
        => outcome.rows = GroupsFetched

\* C2: count_rows returns 0 only when a query of the call succeeded with a
\* zero count or no row, and raises when every query of the call failed
C2_ZeroOnlyFromSuccess ==
    Done("count_rows") =>
        /\ (outcome.kind = "return" /\ outcome.val = Num(0)) =>
               \E i \in 1..Len(trace) :
                   /\ trace[i].resp.ok
                   /\ \/ trace[i].resp.rows = <<>>
                      \/ \E k \in DOMAIN trace[i].resp.rows[1] :
                             trace[i].resp.rows[1][k] = Num(0)
        /\ (\A i \in 1..Len(trace) : ~trace[i].resp.ok) => outcome.kind = "raise"

NativeFailed == Len(trace) >= 1 /\ ~trace[1].resp.ok

NativeText == Lower(trace[1].resp.err)

HasWords(text, p) == Contains(text, p)

\* the native error is re-raised as it is and nothing else is issued
Reraised == outcome = Raise(trace[1].resp.err) /\ Len(trace) = 1

FilteredFetchCount ==
    (Len(trace) >= 2 /\ trace[2].resp.ok) =>
        (outcome = Return(Num(Len(trace[2].resp.rows))) /\ Len(trace) = 2)

\* C3 as stated: a native COUNT failure whose text has "count" and "syntax"
\* makes count_rows return the size of the filtered fetch when that fetch
\* succeeds; a failure with any other text is re-raised and nothing fetched
C3_Original ==
    (Done("count_rows") /\ NativeFailed) =>
        IF HasWords(NativeText, <<"count">>) /\ HasWords(NativeText, <<"syntax">>)
        THEN FallbackTaken /\ FilteredFetchCount
        ELSE Reraised

\* C3 amended: the texts that start the fallback are those with "count" and
\* either "syntax" or "expected identifier near"; every other text is
\* re-raised and nothing fetched
C3_CountFallbackOrReraise ==
    (Done("count_rows") /\ NativeFailed) =>
        IF /\ HasWords(NativeText, <<"count">>)
           /\ \/ HasWords(NativeText, <<"syntax">>)
              \/ HasWords(NativeText, <<"expected", "identifier", "near">>)
        THEN FallbackTaken /\ FilteredFetchCount
        ELSE Reraised

C3_Witness ==
    /\ Done("count_rows")
    /\ trace[1].resp.err = ExpectedNear("COUNT")
    /\ Len(trace) = 2
    /\ trace[2].resp.ok
    /\ call.where = WhereExpense
    /\ Len(table) = 2
    /\ outcome = Return(Num(1))

\* C4: when the native COUNT query succeeds with a row that carries a
\* number, count_rows returns that number and issues no other query
C4_NativeCountReturned ==
    (Done("count_rows") /\ trace[1].resp.ok /\ trace[1].resp.rows # <<>>) =>
        \A k \in DOMAIN trace[1].resp.rows[1] :
            IsNum(trace[1].resp.rows[1][k]) =>
                outcome = Return(trace[1].resp.rows[1][k]) /\ Len(trace) = 1

C4_Witness ==
    /\ Done("count_rows")
    /\ trace[1].resp.ok
    /\ trace[1].resp.rows = <<[count |-> Num(0)]>>
    /\ Len(table) = 2
    /\ outcome = Return(Num(0))

\* the function names a call asks the store for, in lower case
FuncWords ==
    CASE call.op = "count_rows" -> {"count"}
      [] call.op = "sum_over" -> {"sum"}
      [] call.op = "avg_over" -> {"avg"}
      [] OTHER -> {LowerWord(call.aggregates[i][1]) : i \in 1..Len(call.aggregates)}

\* C5: in all four operations the fallback is taken exactly when the
\* lowercased text of the failed native query has the function name (for
\* aggregate: one of the requested names) and "syntax" or "expected
\* identifier"; with every other text the original error is re-raised
C5_SameTrigger ==
    (pc = "done" /\ NativeFailed) =>
        IF /\ \E w \in FuncWords : HasWords(NativeText, <<w>>)
           /\ \/ HasWords(NativeText, <<"syntax">>)
              \/ HasWords(NativeText, <<"expected", "identifier">>)
        THEN FallbackTaken
        ELSE Reraised

\* C6: a connectivity or timeout failure of any query of a call ends the
\* call with that error: no later query, no return value
C6_ConnectivityPropagated ==
    pc = "done" =>
        \A i \in 1..Len(trace) :
            (~trace[i].resp.ok /\ trace[i].resp.err \in ConnectivityTexts) =>
                (i = Len(trace) /\ outcome = Raise(trace[i].resp.err))

\* C7: aggregate without a group-by column returns exactly one row, on the
\* native and on the fallback path, also when no row matches the filter
C7_UngroupedOneRow ==
    (Done("aggregate") /\ call.group_by = "" /\ outcome.kind = "return") =>
        Len(outcome.rows) = 1

\* what the native aggregate yields over the rows the WHERE text selects
NativeValue ==
    CASE call.op = "count_rows" -> Num(Len(Matching))
      [] call.op = "sum_over" -> SumSeq(NonNull(Matching, call.column))
      [] OTHER -> SqlAvg(NonNull(Matching, call.column))

\* C8: a value count_rows, sum_over or avg_over returns from the fallback
\* path is the native aggregate of the same rows: the number of matching
\* rows, the sum or the average of their non-null values
C8_FallbackEqualsNative ==
    (/\ pc = "done"
     /\ call.op \in {"count_rows", "sum_over", "avg_over"}
     /\ FallbackTaken
     /\ outcome.kind = "return") => outcome.val = NativeValue

\* C9: avg_over returns None exactly when no non-null value matches; an
\* average of zero is returned as the number 0, on both paths
C9_NoneOnlyWithoutValues ==
    (Done("avg_over") /\ outcome.kind = "return") =>
        (IsNone(outcome.val) <=> NonNull(Matching, call.column) = <<>>)

\* the comparison v <op> w of two numbers
Holds(op, v, w) ==
    CASE op = ">" -> v.n * w.d > w.n * v.d
      [] op = ">=" -> v.n * w.d >= w.n * v.d
      [] op = "<" -> v.n * w.d < w.n * v.d
      [] op = "<=" -> v.n * w.d <= w.n * v.d
      [] op \in {"=", "=="} -> v.n * w.d = w.n * v.d
      [] OTHER -> v.n * w.d # w.n * v.d

SingleComparison ==
    /\ GroupedFallbackReturn
    /\ ExactShape(call.having)
    /\ call.having[2].s \in ComparisonOps
    /\ call.having[1].s \in Aliases(call.aggregates)

\* C10 as stated: with having = <alias> <op> <number> the fallback result
\* holds exactly the groups whose value under the alias satisfies the
\* comparison
C10_Original ==
    SingleComparison =>
        /\ Range(outcome.rows) \subseteq Range(GroupsFetched)
        /\ \A g \in Range(GroupsFetched) :
               g \in Range(outcome.rows) <=>
                   /\ IsNum(g[call.having[1].s])
                   /\ Holds(call.having[2].s, g[call.having[1].s], call.having[3].v)

\* C10 amended: a group whose value under the alias is null (an aggregate
\* over no non-null value) is compared as 0
C10_HavingKeepsSatisfying ==
    SingleComparison =>
        /\ Range(outcome.rows) \subseteq Range(GroupsFetched)
        /\ \A g \in Range(GroupsFetched) :
               g \in Range(outcome.rows) <=>
                   Holds(call.having[2].s,
                         IF IsNone(g[call.having[1].s]) THEN Num(0) ELSE g[call.having[1].s],
                         call.having[3].v)

C10_Witness ==
    /\ SingleComparison
    /\ call.having = <<Word("sum_amount"), Op(">"), Number(0)>>
    /\ Len(GroupsFetched) = 2
    /\ Len(outcome.rows) = 1

(***************************************************************************)
(* Grouped aggregation in memory without HAVING, with ORDER BY              *)
(***************************************************************************)
OrderTexts ==
    {<<>>, <<"count_all">>, <<"count_all", "DESC">>, <<"sum_amount", "ASC">>,
     <<"sum_amount", "Desc">>, <<"sum_amount", "desc">>}

OrderArgs ==
    [aggregates : {<<CountAll>>, <<SumAmount, CountAll>>}, group_by : {"category_id"},
     having : {<<>>}, order_by : OrderTexts, where : Wheres]

aggregate_ordered ==
    AggregateWith(OrderArgs, {Answers("rows"), Fails(SyntaxNear("COUNT"))}, {Answers("rows")})

NextOrder == aggregate_ordered \/ Consume

SpecOrder == Init /\ [][NextOrder]_vars

\* a grouped aggregate that went to the in-memory path and returned
FallbackGroupsReturned ==
    /\ Done("aggregate")
    /\ call.group_by # ""
    /\ FallbackTaken
    /\ trace[2].resp.ok
    /\ outcome.kind = "return"

FetchedRows == trace[2].resp.rows

\* the number of fetched rows whose group column has value key
RowsWithKey(key) ==
    Cardinality({i \in 1..Len(FetchedRows) : FetchedRows[i][call.group_by] = key})

RECURSIVE CountTotal(_)
CountTotal(rows) ==
    IF rows = <<>> THEN 0 ELSE Head(rows)["count_all"].n + CountTotal(Tail(rows))

\* C11: without HAVING the fallback path of a grouped aggregate returns one
\* row per distinct value of the group column among the fetched rows (null
\* is one group), the COUNT(*) of a group is the number of fetched rows with
\* that value, and the counts add up to the number of fetched rows
C11_OneRowPerGroupValue ==
    (FallbackGroupsReturned /\ call.having = <<>> /\ "count_all" \in Aliases(call.aggregates)) =>
        /\ Len(outcome.rows) =
               Cardinality({FetchedRows[i][call.group_by] : i \in 1..Len(FetchedRows)})
        /\ \A i, j \in 1..Len(outcome.rows) :
               outcome.rows[i][call.group_by] = outcome.rows[j][call.group_by] => i = j
        /\ \A i \in 1..Len(outcome.rows) :
               outcome.rows[i]["count_all"] = Num(RowsWithKey(outcome.rows[i][call.group_by]))
        /\ CountTotal(outcome.rows) = Len(FetchedRows)

C11_Witness ==
    /\ FallbackGroupsReturned
    /\ call.having = <<>>
    /\ call.order_by = <<>>
    /\ Len(FetchedRows) = 2
    /\ Len(outcome.rows) = 2
    /\ \E i \in 1..2 : IsNone(outcome.rows[i]["category_id"])

\* the last query the call issued
LastIssued == trace[Len(trace)]

C13_EmptyResultDefaults ==
    /\ (Done("sum_over") /\ LastIssued.resp.ok
            /\ (Matching = <<>> \/ LastIssued.resp.rows = <<>>)) =>
           outcome = Return(Num(0))
    /\ (Done("avg_over") /\ LastIssued.resp.ok
            /\ (Matching = <<>> \/ LastIssued.resp.rows = <<>>)) =>
           outcome = Return(Null)

C13_Witness ==
    /\ Done("avg_over")
    /\ FallbackTaken
    /\ LastIssued.resp.ok
    /\ LastIssued.resp.rows = <<>>
    /\ Len(table) = 2
    /\ outcome = Return(Null)

\* the value a sort compares for a result row, a missing one taken as 0
SortKey(row) ==
    LET v == Get(row, call.order_by[1], Num(0)) IN IF IsNone(v) THEN Num(0) ELSE v

\* C14: the in-memory path of a grouped aggregate with an ORDER BY text
\* returns its rows sorted by the first word of the text, descending exactly
\* when the text holds "desc" in any case, a missing sort value ordered as 0
C14_SortedByFirstToken ==
    (Done("aggregate") /\ call.group_by # "" /\ FallbackTaken /\ trace[2].resp.ok
        /\ call.order_by # <<>>) =>
        /\ outcome.kind = "return"
        /\ \A i, j \in 1..Len(outcome.rows) :
               i < j => IF \E k \in 1..Len(call.order_by) :
                               call.order_by[k] \in {"DESC", "Desc", "desc"}
                        THEN ~NumLt(SortKey(outcome.rows[i]), SortKey(outcome.rows[j]))
                        ELSE ~NumLt(SortKey(outcome.rows[j]), SortKey(outcome.rows[i]))

(***************************************************************************)
(* Schema reconciliation: the gateway as database_initializer.py uses it    *)
(***************************************************************************)
\* the tables a CREATE statement names after REFERENCES, lines 482-563; the
\* reference of transactions to itself needs no other table
References(t) ==
    CASE t = "categories" -> {"users"}
      [] t = "transactions" -> {"users", "categories"}
      [] t = "budgets" -> {"users", "categories"}
      [] t = "sms_import_logs" -> {"users"}
      [] t = "duplicate_logs" -> {"users", "transactions"}
      [] OTHER -> {}

AlreadyExists(t) == <<"PesaDB", "Error", "Table", t, "already", "exists">>

DuplicateKey == <<"PesaDB", "Error", "Duplicate", "primary", "key">>

ColumnNotFound(c) == <<"PesaDB", "Error", "Column", c, "not", "found">>

\* the deployments: the schema file is absent, or holds the CREATE statements
\* with the INSERT statements of the seed data (lines 396-400, 644-645); the
\* store counts natively or not
Envs ==
    [count_native : BOOLEAN, file : {"absent", "schema_seed"},
     ref_text : {ForeignKeyError, ReferenceMissing}]

\* what goes wrong at the store during one call: nothing; the CREATE of a
\* table reports success without persisting it; the CREATE of a table fails;
\* SELECT * FROM <table> LIMIT 1 fails; the probe of a column fails; the
\* INSERT of a row fails
FaultTables == {"users", "status_checks"}

CreateFaults == [kind : {"silent", "create_error", "check_down"}, on : FaultTables]

ProbeFaults ==
    {[kind |-> "check_down", on |-> "users"]} \cup [kind : {"probe_down"}, on : AuthColumns]

InsertFaults == [kind : {"insert_error"}, on : {"cat-transport", "admin"}]

Faults == {NoFault} \cup CreateFaults \cup ProbeFaults \cup InsertFaults

\* a store of schema version 1.0.0 or 2.0.0 in use: every table exists, users
\* has the columns cols and one row
Legacy(cols) ==
    [cats |-> {DefaultCategories[i] : i \in 1..Len(DefaultCategories)},
     tables |-> {RequiredTables[i] : i \in 1..Len(RequiredTables)},
     user_cols |-> cols, users |-> {"u1"}]

InitStores == {Pristine} \cup {Legacy(cols) : cols \in (SUBSET AuthColumns) \ {AuthColumns}}

\* one statement sent to the gateway and what came back
St(kind, on, arg, resp) ==
    [arg |-> arg, err |-> resp.err, kind |-> kind, ok |-> resp.ok, on |-> on]

\* SELECT * FROM t LIMIT 1
StoreSelect1(d, f, t) ==
    IF f = [kind |-> "check_down", on |-> t] THEN Err(ConnectionError)
    ELSE IF t \in d.tables THEN Ok(<<>>)
    ELSE Err(NotFound(t))

\* SELECT id, c FROM users LIMIT 1
StoreProbe(d, f, c) ==
    IF f = [kind |-> "probe_down", on |-> c] THEN Err(ConnectionError)
    ELSE IF "users" \notin d.tables THEN Err(NotFound("users"))
    ELSE IF c \in d.user_cols THEN Ok(<<>>)
    ELSE Err(ColumnNotFound(c))

WithTable(d, t) ==
    [d EXCEPT !.tables = @ \cup {t},
              !.user_cols = IF t = "users" THEN AuthColumns ELSE @]

\* CREATE TABLE t (...)
StoreCreate(d, e, f, t) ==
    IF f = [kind |-> "create_error", on |-> t] THEN [db |-> d, resp |-> Err(ConnectionError)]
    ELSE IF t \in d.tables THEN [db |-> d, resp |-> Err(AlreadyExists(t))]
    ELSE IF References(t) \ d.tables # {} THEN [db |-> d, resp |-> Err(e.ref_text)]
    ELSE IF f = [kind |-> "silent", on |-> t] THEN [db |-> d, resp |-> Ok(<<>>)]
    ELSE [db |-> WithTable(d, t), resp |-> Ok(<<>>)]

\* DROP TABLE users
StoreDrop(d) ==
    IF "users" \in d.tables
    THEN [db |-> [d EXCEPT !.tables = @ \ {"users"}, !.user_cols = {}, !.users = {}],
          resp |-> Ok(<<>>)]
    ELSE [db |-> d, resp |-> Err(NotFound("users"))]

\* INSERT INTO users (id, email, password_hash, ...) VALUES (id, ...)
StoreInsertUser(d, f, id) ==
    IF f = [kind |-> "insert_error", on |-> id] THEN [db |-> d, resp |-> Err(ConnectionError)]
    ELSE IF "users" \notin d.tables THEN [db |-> d, resp |-> Err(NotFound("users"))]
    ELSE IF d.user_cols # AuthColumns
    THEN [db |-> d, resp |-> Err(ColumnNotFound(CHOOSE c \in AuthColumns : c \notin d.user_cols))]
    ELSE IF id \in d.users THEN [db |-> d, resp |-> Err(DuplicateKey)]
    ELSE [db |-> [d EXCEPT !.users = @ \cup {id}], resp |-> Ok(<<>>)]

\* INSERT INTO categories (id, user_id, ...) VALUES (id, 'system', ...)
StoreInsertCategory(d, e, f, id) ==
    IF f = [kind |-> "insert_error", on |-> id] THEN [db |-> d, resp |-> Err(ConnectionError)]
    ELSE IF "categories" \notin d.tables THEN [db |-> d, resp |-> Err(NotFound("categories"))]
    ELSE IF id \in d.cats THEN [db |-> d, resp |-> Err(DuplicateKey)]
    ELSE IF "system" \notin d.users THEN [db |-> d, resp |-> Err(e.ref_text)]
    ELSE [db |-> [d EXCEPT !.cats = @ \cup {id}], resp |-> Ok(<<>>)]

(***************************************************************************)
(* DatabaseInitializer                                                     *)
(***************************************************************************)
\* lines 60-67: the texts that say the table is missing
SaysMissing(msg) ==
    \/ Contains(msg, <<"does", "not", "exist">>)
    \/ Contains(msg, <<"no", "such", "table">>)
    \/ Contains(msg, <<"unknown", "table">>)
    \/ Contains(msg, <<"not", "found">>)
    \/ \E i \in 1..Len(msg) : msg[i] = "tablenotfound"

\* table_exists with a failure that does not say the table is missing taken
\* as present
TableExistsUnlessMissing(resp) ==
    IF resp.ok THEN TRUE
    ELSE IF SaysMissing(Lower(resp.err)) THEN FALSE
    ELSE TRUE

\* lines 47-74: present when the query returns; missing when it fails with
\* a text that says so, and missing as well when it fails otherwise
table_exists(resp) ==
    IF resp.ok THEN TRUE
    ELSE IF SaysMissing(Lower(resp.err)) THEN FALSE
    ELSE FALSE

\* check_users_table_schema with a column taken as present unless the failure
\* of its probe names it
CheckSchemaLenient(d, f) ==
    LET e == StoreSelect1(d, f, "users")
        p1 == StoreProbe(d, f, "email")
        p2 == StoreProbe(d, f, "password_hash")
        has1 == p1.ok \/ ~Contains(Lower(p1.err), <<"email", "not">>)
        has2 == p2.ok \/ ~Contains(Lower(p2.err), <<"password_hash", "not">>)
        correct == has1 /\ has2
    IN  IF ~table_exists(e)
        THEN [result |-> NoResult.schema, steps |-> <<St("EXISTS", "users", "", e)>>]
        ELSE [result |-> [exists |-> TRUE, has_correct_schema |-> correct,
                          has_email |-> has1, has_password_hash |-> has2,
                          is_old_schema |-> ~correct, needs_migration |-> ~correct],
              steps |-> <<St("EXISTS", "users", "", e), St("PROBE", "users", "email", p1),
                          St("PROBE", "users", "password_hash", p2)>>]

\* lines 76-131
check_users_table_schema(d, f) ==
    LET e == StoreSelect1(d, f, "users")
        p1 == StoreProbe(d, f, "email")
        p2 == StoreProbe(d, f, "password_hash")
        correct == p1.ok /\ p2.ok
    IN  IF ~table_exists(e)
        THEN [result |-> NoResult.schema, steps |-> <<St("EXISTS", "users", "", e)>>]
        ELSE [result |-> [exists |-> TRUE, has_correct_schema |-> correct,
                          has_email |-> p1.ok, has_password_hash |-> p2.ok,
                          is_old_schema |-> ~correct, needs_migration |-> ~correct],
              steps |-> <<St("EXISTS", "users", "", e), St("PROBE", "users", "email", p1),
                          St("PROBE", "users", "password_hash", p2)>>]

\* lines 152-156: the failures of DROP that migration goes on from
DropCanGoOn(msg) ==
    Contains(msg, <<"does", "not", "exist">>) \/ Contains(msg, <<"not", "found">>)

\* migrate_users_table without the DROP of the old table
MigrateWithoutDrop(d, e, f) ==
    LET cr == StoreCreate(d, e, f, "users")
        ck == check_users_table_schema(cr.db, f)
    IN  IF ~cr.resp.ok
        THEN [db |-> cr.db, ok |-> FALSE, steps |-> <<St("CREATE", "users", "", cr.resp)>>]
        ELSE [db |-> cr.db, ok |-> ck.result.has_correct_schema,
              steps |-> <<St("CREATE", "users", "", cr.resp)>> \o ck.steps]

\* lines 133-184
migrate_users_table(d, e, f) ==
    LET dr == StoreDrop(d)
        cr == StoreCreate(dr.db, e, f, "users")
        ck == check_users_table_schema(cr.db, f)
    IN  IF ~dr.resp.ok /\ ~DropCanGoOn(Lower(dr.resp.err))
        THEN [db |-> dr.db, ok |-> FALSE, steps |-> <<St("DROP", "users", "", dr.resp)>>]
        ELSE IF ~cr.resp.ok
        THEN [db |-> cr.db, ok |-> FALSE,
              steps |-> <<St("DROP", "users", "", dr.resp), St("CREATE", "users", "", cr.resp)>>]
        ELSE [db |-> cr.db, ok |-> ck.result.has_correct_schema,
              steps |-> <<St("DROP", "users", "", dr.resp), St("CREATE", "users", "", cr.resp)>>
                            \o ck.steps]

\* lines 611-618: 'exist' and 'duplicate' occur inside these words
MeansExists(msg) ==
    \E i \in 1..Len(msg) : msg[i] \in {"exist", "exists", "duplicate"}

\* an entry of the errors list
Error(what, on) == [on |-> on, what |-> what]

Pass(d, created, skipped, errors, steps) ==
    [created |-> created, db |-> d, errors |-> errors, skipped |-> skipped, steps |-> steps]

\* the value of x handed to F: a local of the code, computed once
Bind(x, F(_)) == CHOOSE r \in {F(y) : y \in {x}} : TRUE

\* CreateStep with a table counted as created as soon as its CREATE succeeded
CreateStepUnverified(t, e, f, d, acc) ==
    LET pre == StoreSelect1(d, f, t)
        cr == StoreCreate(d, e, f, t)
        post == StoreSelect1(cr.db, f, t)
        s1 == Append(acc.steps, St("EXISTS", t, "", pre))
        s2 == Append(s1, St("CREATE", t, "", cr.resp))
        s3 == Append(s2, St("EXISTS", t, "", post))
    IN  IF table_exists(pre) THEN Pass(d, acc.created, acc.skipped + 1, acc.errors, s1)
        ELSE IF ~cr.resp.ok
        THEN IF MeansExists(Lower(cr.resp.err))
             THEN Pass(cr.db, acc.created, acc.skipped + 1, acc.errors, s2)
             ELSE Pass(cr.db, acc.created, acc.skipped,
                       Append(acc.errors, Error("create", t)), s2)
        ELSE Pass(cr.db, acc.created + 1, acc.skipped, acc.errors, s3)

\* CreateStep with a failed verification logged and not recorded
CreateStepUncounted(t, e, f, d, acc) ==
    LET pre == StoreSelect1(d, f, t)
        cr == StoreCreate(d, e, f, t)
        post == StoreSelect1(cr.db, f, t)
        s1 == Append(acc.steps, St("EXISTS", t, "", pre))
        s2 == Append(s1, St("CREATE", t, "", cr.resp))
        s3 == Append(s2, St("EXISTS", t, "", post))
    IN  IF table_exists(pre) THEN Pass(d, acc.created, acc.skipped + 1, acc.errors, s1)
        ELSE IF ~cr.resp.ok
        THEN IF MeansExists(Lower(cr.resp.err))
             THEN Pass(cr.db, acc.created, acc.skipped + 1, acc.errors, s2)
             ELSE Pass(cr.db, acc.created, acc.skipped,
                       Append(acc.errors, Error("create", t)), s2)
        ELSE IF table_exists(post)
        THEN Pass(cr.db, acc.created + 1, acc.skipped, acc.errors, s3)
        ELSE Pass(cr.db, acc.created, acc.skipped, acc.errors, s3)

\* lines 576-636 (and 300-371): the check, the CREATE and the re-check of one
\* table, on the store d with the counters and errors so far in acc
CreateStep(t, e, f, d, acc) ==
    LET pre == StoreSelect1(d, f, t)
        cr == StoreCreate(d, e, f, t)
        post == StoreSelect1(cr.db, f, t)
        s1 == Append(acc.steps, St("EXISTS", t, "", pre))
        s2 == Append(s1, St("CREATE", t, "", cr.resp))
        s3 == Append(s2, St("EXISTS", t, "", post))
    IN  IF table_exists(pre) THEN Pass(d, acc.created, acc.skipped + 1, acc.errors, s1)
        ELSE IF ~cr.resp.ok
        THEN IF MeansExists(Lower(cr.resp.err))
             THEN Pass(cr.db, acc.created, acc.skipped + 1, acc.errors, s2)
             ELSE Pass(cr.db, acc.created, acc.skipped,
                       Append(acc.errors, Error("create", t)), s2)
        ELSE IF table_exists(post)
        THEN Pass(cr.db, acc.created + 1, acc.skipped, acc.errors, s3)
        ELSE Pass(cr.db, acc.created, acc.skipped,
                  Append(acc.errors, Error("verify", t)), s3)

RECURSIVE CreateLoop(_, _, _, _)

\* CreateLoop given up as soon as the errors list holds an entry
CreateLoopAborting(names, e, f, acc) ==
    IF names = <<>> \/ acc.errors # <<>> THEN acc
    ELSE Bind(CreateStep(Head(names), e, f, acc.db, acc),
              LAMBDA x : CreateLoop(Tail(names), e, f, x))

\* lines 574-636 (and 298-371): the loop over the CREATE statements
CreateLoop(names, e, f, acc) ==
    IF names = <<>> THEN acc
    ELSE Bind(CreateStep(Head(names), e, f, acc.db, acc),
              LAMBDA x : CreateLoop(Tail(names), e, f, x))

\* lines 446-638
CreateTablesInline(d, e, f) == CreateLoop(RequiredTables, e, f, Pass(d, 0, 0, <<>>, <<>>))

\* lines 416-420 and 421-426: the failures of a seed INSERT of the schema file
InsertIsDuplicate(msg) ==
    \/ \E i \in 1..Len(msg) : msg[i] \in {"duplicate", "unique"}
    \/ Contains(msg, <<"already", "exists">>)

InsertIsForeignKey(msg) ==
    \/ Contains(msg, <<"foreign", "key">>)
    \/ \E i \in 1..Len(msg) : msg[i] \in {"constraint", "references"}
    \/ Contains(msg, <<"does", "not", "exist">>)

\* what load_sql_from_file says when the file is missing, lines 198-199
FileNotFound == <<"SQL", "initialization", "file", "not", "found">>

\* lines 186-202: one reading of the schema file
LoadStep(e) ==
    St("LOAD", "init_pesadb.sql", "",
       IF e.file = "absent" THEN Err(FileNotFound) ELSE Ok(<<>>))

Statement(kind, on, id) == [id |-> id, kind |-> kind, on |-> on]

\* lines 204-235: the statements of the schema file as parse_sql_statements
\* returns them: DROP TABLE IF EXISTS of every table, the CREATE statements,
\* then the INSERT of the system user and of the reference categories
FileStatements(e) ==
    IF e.file = "schema_seed"
    THEN [i \in 1..Len(RequiredTables) |->
             Statement("DROP", RequiredTables[Len(RequiredTables) + 1 - i], "")]
         \o [i \in 1..Len(RequiredTables) |-> Statement("CREATE", RequiredTables[i], "")]
         \o <<Statement("INSERT", "users", "system")>>
         \o [i \in 1..Len(DefaultCategories) |->
                Statement("INSERT", "categories", DefaultCategories[i])]
    ELSE <<>>

Selected(stmts, kind) == SelectSeq(stmts, LAMBDA st : st.kind = kind)

\* lines 292-307: DROP TABLE statements are skipped, CREATE TABLE statements
\* are processed, by the table they name
FileCreates(e) ==
    LET creates == Selected(SelectSeq(FileStatements(e), LAMBDA st : st.kind # "DROP"),
                            "CREATE")
    IN  [i \in 1..Len(creates) |-> creates[i].on]

\* lines 403-404: only the INSERT INTO statements are executed
FileInserts(e) == Selected(FileStatements(e), "INSERT")

\* lines 396-443
RECURSIVE InsertLoop(_, _, _, _)
InsertLoop(inserts, e, f, acc) ==
    IF inserts = <<>> THEN acc
    ELSE LET i == Head(inserts)
             r == IF i.on = "users" THEN StoreInsertUser(acc.db, f, i.id)
                  ELSE StoreInsertCategory(acc.db, e, f, i.id)
             steps == Append(acc.steps, St("INSERT", i.on, i.id, r.resp))
             errors == IF ~r.resp.ok /\ ~InsertIsDuplicate(Lower(r.resp.err))
                           /\ InsertIsForeignKey(Lower(r.resp.err))
                       THEN Append(acc.errors, Error("foreign_key", i.on))
                       ELSE acc.errors
         IN  Bind(Pass(r.db, acc.created, acc.skipped, errors, steps),
                  LAMBDA x : InsertLoop(Tail(inserts), e, f, x))

\* CreateTables with the DROP TABLE users statement of the schema file executed
CreateTablesRunningDrops(d, e, f) ==
    IF e.file = "absent"
    THEN Bind(CreateTablesInline(d, e, f),
              LAMBDA il : [il EXCEPT !.steps = <<LoadStep(e)>> \o @])
    ELSE Bind(StoreDrop(d), LAMBDA dr :
         Bind(CreateLoop(FileCreates(e), e, f,
                         Pass(dr.db, 0, 0, <<>>,
                              <<LoadStep(e), St("DROP", "users", "", dr.resp)>>)),
              LAMBDA ct : InsertLoop(FileInserts(e), e, f,
                                     [ct EXCEPT !.steps = Append(@, LoadStep(e))])))

\* lines 267-445: without the schema file the error of the load is appended
\* to the local list and the result of create_tables_inline is returned in
\* its place (lines 373-379); with it the file is read once for the CREATE
\* statements and once more for the INSERT statements (line 399)
CreateTables(d, e, f) ==
    IF e.file = "absent"
    THEN Bind(CreateTablesInline(d, e, f),
              LAMBDA il : [il EXCEPT !.steps = <<LoadStep(e)>> \o @])
    ELSE Bind(CreateLoop(FileCreates(e), e, f, Pass(d, 0, 0, <<>>, <<LoadStep(e)>>)),
              LAMBDA ct : InsertLoop(FileInserts(e), e, f,
                                     [ct EXCEPT !.steps = Append(@, LoadStep(e))]))

\* lines 717-755
RECURSIVE VerifyLoop(_, _, _, _)
VerifyLoop(names, d, f, acc) ==
    IF names = <<>> THEN acc
    ELSE LET r == StoreSelect1(d, f, Head(names))
         IN  Bind([ok |-> acc.ok /\ table_exists(r),
                   steps |-> Append(acc.steps, St("EXISTS", Head(names), "", r))],
                  LAMBDA x : VerifyLoop(Tail(names), d, f, x))

verify_database(d, f) == VerifyLoop(RequiredTables, d, f, [ok |-> TRUE, steps |-> <<>>])

\* the rows of a table as count_rows_safe fetches them
RowsOfSet(ids) ==
    LET RECURSIVE AsSeq(_)
        AsSeq(S) == IF S = {} THEN <<>>
                    ELSE Bind(CHOOSE y \in S : TRUE,
                              LAMBDA x : <<[id |-> Str(x)]>> \o AsSeq(S \ {x}))
    IN  AsSeq(ids)

\* count_rows_safe(t, query_func=query_db) against the store
CountOf(d, e, t, ids) ==
    LET missing == t \notin d.tables
        b1 == IF missing THEN Fails(NotFound(t))
              ELSE IF e.count_native THEN Answers("count")
              ELSE Fails(SyntaxNear("COUNT"))
        b2 == IF missing THEN Fails(NotFound(t)) ELSE Answers("rows")
    IN  Bind(RowsOfSet(ids), LAMBDA rows :
        Bind(CountRowsRun(rows, "", b1, b2, b2), LAMBDA r :
            [outcome |-> r.outcome,
             steps |-> [i \in 1..Len(r.trace) |->
                           St(IF r.trace[i].sql.what = "SELECT" THEN "SELECT" ELSE "COUNT",
                              t, "", r.trace[i].resp)]]))

RECURSIVE SeedLoop(_, _, _, _)

\* SeedLoop given up at the first INSERT that fails
SeedLoopAborting(ids, e, f, acc) ==
    IF ids = <<>> \/ (acc.steps # <<>> /\ ~acc.steps[Len(acc.steps)].ok) THEN acc
    ELSE LET r == StoreInsertCategory(acc.db, e, f, Head(ids))
         IN  Bind([db |-> r.db, seeded |-> acc.seeded + (IF r.resp.ok THEN 1 ELSE 0),
                   steps |-> Append(acc.steps, St("INSERT", "categories", Head(ids), r.resp))],
                  LAMBDA x : SeedLoop(Tail(ids), e, f, x))

\* lines 694-711
SeedLoop(ids, e, f, acc) ==
    IF ids = <<>> THEN acc
    ELSE LET r == StoreInsertCategory(acc.db, e, f, Head(ids))
         IN  Bind([db |-> r.db, seeded |-> acc.seeded + (IF r.resp.ok THEN 1 ELSE 0),
                   steps |-> Append(acc.steps, St("INSERT", "categories", Head(ids), r.resp))],
                  LAMBDA x : SeedLoop(Tail(ids), e, f, x))

\* lines 640-715
seed_default_categories(d, e, f) ==
    Bind(CountOf(d, e, "categories", d.cats), LAMBDA c :
        LET su == IF "users" \in d.tables THEN Ok(<<>>) ELSE Err(NotFound("users"))
            s1 == Append(c.steps, St("SELECT", "users", "system", su))
            ins == IF "system" \in d.users THEN [db |-> d, resp |-> Ok(<<>>)]
                   ELSE StoreInsertUser(d, f, "system")
            s2 == IF "system" \in d.users THEN s1
                  ELSE Append(s1, St("INSERT", "users", "system", ins.resp))
        IN  IF c.outcome.kind = "raise" THEN [db |-> d, seeded |-> 0, steps |-> c.steps]
            ELSE IF c.outcome.val.n > 0 THEN [db |-> d, seeded |-> 0, steps |-> c.steps]
            ELSE IF ~su.ok THEN [db |-> d, seeded |-> 0, steps |-> s1]
            ELSE IF ~ins.resp.ok THEN [db |-> d, seeded |-> 0, steps |-> s2]
            ELSE SeedLoop(DefaultCategories, e, f, [db |-> ins.db, seeded |-> 0, steps |-> s2]))

\* pesadb_service.py lines 30-38: the table-not-found error counts as 0
get_user_count(d, e) ==
    Bind(CountOf(d, e, "users", d.users), LAMBDA c :
        IF c.outcome.kind = "raise" /\ Contains(Lower(c.outcome.err), <<"not", "found">>)
        THEN [outcome |-> Return(Num(0)), steps |-> c.steps]
        ELSE c)

\* lines 757-815
create_default_user(d, e, f) ==
    Bind(get_user_count(d, e), LAMBDA c :
        LET ins == StoreInsertUser(d, f, "admin")
        IN  IF c.outcome.kind = "raise" THEN [created |-> FALSE, db |-> d, steps |-> c.steps]
            ELSE IF c.outcome.val.n > 0 THEN [created |-> FALSE, db |-> d, steps |-> c.steps]
            ELSE [created |-> ins.resp.ok, db |-> ins.db,
                  steps |-> Append(c.steps, St("INSERT", "users", "admin", ins.resp))])

\* SeedAndUser with success only for a report without errors
SeedAndUserStrict(d, e, f, seed, user, rep, steps) ==
    Bind(IF seed THEN seed_default_categories(d, e, f)
         ELSE [db |-> d, seeded |-> 0, steps |-> <<>>],
         LAMBDA sd :
    Bind(IF user THEN create_default_user(sd.db, e, f)
         ELSE [created |-> FALSE, db |-> sd.db, steps |-> <<>>],
         LAMBDA du :
        [db |-> du.db,
         result |-> [rep EXCEPT !.categories_seeded = sd.seeded,
                                !.user_created = du.created,
                                !.success = (rep.errors = <<>>)],
         steps |-> steps \o sd.steps \o du.steps]))

\* lines 925-937 and 961-963
SeedAndUser(d, e, f, seed, user, rep, steps) ==
    Bind(IF seed THEN seed_default_categories(d, e, f)
         ELSE [db |-> d, seeded |-> 0, steps |-> <<>>],
         LAMBDA sd :
    Bind(IF user THEN create_default_user(sd.db, e, f)
         ELSE [created |-> FALSE, db |-> sd.db, steps |-> <<>>],
         LAMBDA du :
        [db |-> du.db,
         result |-> [rep EXCEPT !.categories_seeded = sd.seeded,
                                !.user_created = du.created, !.success = TRUE],
         steps |-> steps \o sd.steps \o du.steps]))

\* lines 838-905: the report and the statements after the first verification
FirstPass(ck, mg, ct, v1) ==
    LET e0 == IF ck.result.needs_migration /\ ~mg.ok
              THEN <<Error("migration", "users")>> ELSE <<>>
    IN  [result |-> [NoResult EXCEPT !.schema = ck.result, !.migrated = mg.ok,
                                     !.tables_created = ct.created,
                                     !.tables_skipped = ct.skipped,
                                     !.errors = e0 \o ct.errors, !.verified = v1.ok],
         steps |-> ck.steps \o mg.steps \o ct.steps \o v1.steps]

\* lines 897-900: the failed verification is recorded
VerificationFailed(p1) ==
    [p1 EXCEPT !.result.errors = Append(@, Error("verification", ""))]

\* lines 903-918: the inline statements are run and the store verified again
SecondPass(p1, il, v2) ==
    [result |-> [VerificationFailed(p1).result EXCEPT
                     !.tables_created = il.created, !.tables_skipped = il.skipped,
                     !.errors = @ \o il.errors, !.verified = v2.ok],
     steps |-> p1.steps \o il.steps \o v2.steps]

\* lines 838-923: schema check, migration, creation and verification; when
\* the verification fails and no table was created, the inline statements
\* are run and the store is verified again
Passes(d, e, f) ==
    Bind(check_users_table_schema(d, f), LAMBDA ck :
    Bind(IF ck.result.needs_migration THEN migrate_users_table(d, e, f)
         ELSE [db |-> d, ok |-> FALSE, steps |-> <<>>], LAMBDA mg :
    Bind(CreateTables(mg.db, e, f), LAMBDA ct :
    Bind(verify_database(ct.db, f), LAMBDA v1 :
    Bind(FirstPass(ck, mg, ct, v1), LAMBDA p1 :
        IF v1.ok THEN [db |-> ct.db, result |-> p1.result, steps |-> p1.steps]
        ELSE IF ct.created # 0
        THEN [db |-> ct.db, result |-> VerificationFailed(p1).result, steps |-> p1.steps]
        ELSE Bind(CreateTablesInline(ct.db, e, f), LAMBDA il :
             Bind(verify_database(il.db, f), LAMBDA v2 :
                 [db |-> il.db, result |-> SecondPass(p1, il, v2).result,
                  steps |-> SecondPass(p1, il, v2).steps])))))))

\* lines 917-937: the steps after verification run only when the store is
\* verified (the returns at lines 917 and 922)
AfterVerification(p, e, f, seed, user) ==
    IF p.result.verified THEN SeedAndUser(p.db, e, f, seed, user, p.result, p.steps)
    ELSE p

Started(op, f, seed, user, after, result, steps) ==
    /\ prev' = [same_call |-> /\ run.op = "initialize" /\ op = "initialize"
                               /\ run.fault = NoFault
                               /\ run.seed_categories = seed
                               /\ run.create_default_user = user]
    /\ run' = [before |-> db, create_default_user |-> user, fault |-> f, op |-> op,
               result |-> result, seed_categories |-> seed, steps |-> steps]
    /\ db' = after
    /\ UNCHANGED <<table, pc, call, trace, outcome, env, observed, inst>>

initialize_database ==
    \E f \in Faults :
        \E p \in {Passes(db, env, f)} :
            \E seed \in BOOLEAN, user \in BOOLEAN :
                \E r \in {AfterVerification(p, env, f, seed, user)} :
                    Started("initialize", f, seed, user, r.db, r.result, r.steps)

create_tables_inline ==
    \E f \in {NoFault} \cup CreateFaults :
        \E r \in {CreateTablesInline(db, env, f)} :
            Started("create_tables_inline", f, FALSE, FALSE, r.db,
                    [NoResult EXCEPT !.tables_created = r.created,
                                     !.tables_skipped = r.skipped, !.errors = r.errors],
                    r.steps)

check_schema ==
    \E f \in {NoFault} \cup ProbeFaults :
        \E r \in {check_users_table_schema(db, f)} :
            Started("check_users_table_schema", f, FALSE, FALSE, db,
                    [NoResult EXCEPT !.schema = r.result], r.steps)

InitSchema ==
    /\ table = <<>>
    /\ pc = "idle"
    /\ call = NoCall
    /\ trace = <<>>
    /\ outcome = NoOutcome
    /\ env \in Envs
    /\ db \in InitStores
    /\ run = NoRun
    /\ prev = NoPrev
    /\ observed = NothingObserved
    /\ inst = NoInstances

NextSchema == initialize_database \/ create_tables_inline \/ check_schema

SpecSchema == InitSchema /\ [][NextSchema]_vars

(***************************************************************************)
(* Properties of schema reconciliation                                     *)
(***************************************************************************)
Ran(op) == run.op = op

StepsWhere(kind, on) ==
    {i \in 1..Len(run.steps) : run.steps[i].kind = kind /\ run.steps[i].on = on}

AllTables == {RequiredTables[i] : i \in 1..Len(RequiredTables)}

HasError(what, on) ==
    \E j \in 1..Len(run.result.errors) : run.result.errors[j] = Error(what, on)

\* the tables whose CREATE failed in this run because a table they reference
\* is missing
RefusedForReference ==
    {t \in AllTables :
        \E i \in StepsWhere("CREATE", t) : ~run.steps[i].ok /\ run.steps[i].err = env.ref_text}

\* C15: when the CREATE of a table fails because a table it references is
\* missing, table creation records the failure in its errors and counts the
\* table neither as created nor as skipped
C15_MissingReferenceIsError ==
    Ran("create_tables_inline") =>
        /\ \A t \in RefusedForReference : HasError("create", t)
        /\ run.result.tables_created + run.result.tables_skipped
              + Cardinality(RefusedForReference) <= Len(RequiredTables)

\* the tables of this run whose check found them missing, whose CREATE
\* succeeded and whose re-check found them
CheckedCreatedRechecked ==
    {t \in AllTables :
        \E i \in StepsWhere("CREATE", t) :
            /\ run.steps[i].ok
            /\ run.steps[i - 1] = [run.steps[i - 1] EXCEPT !.kind = "EXISTS", !.on = t,
                                                           !.ok = FALSE]
            /\ i < Len(run.steps)
            /\ run.steps[i + 1] = [run.steps[i + 1] EXCEPT !.kind = "EXISTS", !.on = t,
                                                           !.ok = TRUE]}

\* the tables of this run whose CREATE succeeded and whose re-check failed
CreatedNotFound ==
    {t \in AllTables :
        \E i \in StepsWhere("CREATE", t) :
            /\ run.steps[i].ok
            /\ i < Len(run.steps)
            /\ run.steps[i + 1].kind = "EXISTS"
            /\ ~run.steps[i + 1].ok}

\* C16: table creation counts in tables_created only tables whose existence
\* check failed before the CREATE, whose CREATE succeeded and whose re-check
\* succeeded; a table whose re-check fails after a successful CREATE is
\* recorded as an error and not counted
C16_CreatedOnlyWhenRechecked ==
    Ran("create_tables_inline") =>
        /\ run.result.tables_created <= Cardinality(CheckedCreatedRechecked)
        /\ \A t \in CreatedNotFound : HasError("verify", t)
        /\ run.result.tables_created + Cardinality(CreatedNotFound) <= Len(RequiredTables)

C16_Witness ==
    /\ Ran("create_tables_inline")
    /\ run.before = Pristine
    /\ run.fault = [kind |-> "silent", on |-> "status_checks"]
    /\ run.result.tables_created = 6
    /\ run.result.errors = <<Error("verify", "status_checks")>>

\* users existed with a column of AuthColumns missing when the run began
StaleBefore == "users" \in run.before.tables /\ run.before.user_cols # AuthColumns

\* users has both columns and none of the rows it held before the run
UsersReplaced ==
    /\ check_users_table_schema(db, NoFault).result.has_correct_schema
    /\ db.users \cap run.before.users = {}

C18_NeedsMigrationExactly ==
    Ran("check_users_table_schema") =>
        LET exists == run.steps[1].kind = "EXISTS" /\ run.steps[1].ok
            probes == StepsWhere("PROBE", "users")
        IN  /\ run.result.schema.needs_migration <=>
                   (exists /\ \E i \in probes : ~run.steps[i].ok)
            /\ exists => {run.steps[i].arg : i \in probes} = AuthColumns
            /\ ~exists => probes = {} /\ ~run.result.schema.needs_migration

C18_Witness ==
    /\ Ran("check_users_table_schema")
    /\ run.fault = [kind |-> "probe_down", on |-> "email"]
    /\ db.user_cols = AuthColumns
    /\ run.result.schema.needs_migration
    /\ run.result.schema.has_password_hash

\* C19: initialize_database on a store without tables that executes every
\* statement reports 7 tables created, none skipped and verified, and all
\* seven tables exist afterwards
C19_PristineCreatesAll ==
    (Ran("initialize") /\ run.before.tables = {} /\ run.fault = NoFault) =>
        /\ run.result.tables_created = 7
        /\ run.result.tables_skipped = 0
        /\ run.result.verified
        /\ db.tables = AllTables

C19_Witness ==
    /\ Ran("initialize")
    /\ run.before = Pristine
    /\ run.fault = NoFault
    /\ run.result.tables_created = 7
    /\ run.result.verified
    /\ Cardinality(db.tables) = 7

\* this run is the second of two initialize_database calls in a row with
\* the same arguments, the store executing every statement of both
SecondCall ==
    /\ Ran("initialize")
    /\ run.fault = NoFault
    /\ prev.same_call

\* C20: the second of two initialize_database calls in a row issues no
\* CREATE and no INSERT of seed data, reports 0 tables created, 7 skipped
\* and 0 categories seeded, and leaves the store as the first call left it
C20_SecondCallIdempotent ==
    SecondCall =>
        /\ \A i \in 1..Len(run.steps) : run.steps[i].kind \notin {"CREATE", "INSERT"}
        /\ run.result.tables_created = 0
        /\ run.result.tables_skipped = 7
        /\ run.result.categories_seeded = 0
        /\ db = run.before

\* the statements of this run that failed, other than a CREATE refused
\* because the table exists and an INSERT refused because the row exists
FailedSteps ==
    {i \in 1..Len(run.steps) :
        /\ run.steps[i].kind \in {"LOAD", "CREATE", "INSERT"}
        /\ ~run.steps[i].ok
        /\ run.steps[i].err \notin {AlreadyExists(run.steps[i].on), DuplicateKey}}

\* the entries of the errors list that speak of a failure of this kind
WhatOf(kind) ==
    CASE kind = "LOAD" -> {"load"}
      [] kind = "CREATE" -> {"create"}
      [] OTHER -> {"foreign_key", "insert"}

\* C21: every failure during initialize_database (a failed table creation,
\* a failed migration, a failed load of the schema file, a failed seed
\* insert, a failed creation of the default user) has an entry in the errors
\* list of the report
C21_EveryFailureReported ==
    Ran("initialize") =>
        /\ \A i \in FailedSteps :
               \E w \in WhatOf(run.steps[i].kind) : HasError(w, run.steps[i].on)
        /\ \A t \in CreatedNotFound : HasError("verify", t)
        /\ (run.result.schema.needs_migration /\ ~run.result.migrated)
               => HasError("migration", "users")

\* where the verification passes of this run start: SELECT * FROM <table>
\* LIMIT 1 for the seven required tables in a row
VerifyPasses ==
    {i \in 1..(Len(run.steps) - Len(RequiredTables) + 1) :
        \A k \in 1..Len(RequiredTables) :
            /\ run.steps[i + k - 1].kind = "EXISTS"
            /\ run.steps[i + k - 1].on = RequiredTables[k]}

\* the last verification pass of this run found every required table
LastVerificationFoundAll ==
    /\ VerifyPasses # {}
    /\ LET i == CHOOSE j \in VerifyPasses : \A k \in VerifyPasses : k <= j
       IN  \A k \in 1..Len(RequiredTables) : run.steps[i + k - 1].ok

\* C22: in every report of initialize_database success is True exactly when
\* verified is True, which is exactly when the last verification pass of
\* the run found all seven required tables; the errors list plays no part
C22_SuccessIffVerified ==
    Ran("initialize") =>
        /\ run.result.success <=> run.result.verified
        /\ run.result.verified <=> LastVerificationFoundAll

C22_Witness ==
    /\ Ran("initialize")
    /\ run.result.success
    /\ run.result.verified
    /\ run.result.errors # <<>>

\* the statements of this run that delete data
Deleting == {i \in 1..Len(run.steps) : run.steps[i].kind \in {"DROP", "DELETE"}}

\* C23: the only data-deleting statement of initialize_database is DROP
\* TABLE users, issued only when the stale-schema check returned
\* needs_migration; nothing else, the statements of the schema file
\* included, drops a table or deletes rows
C23_OnlyMigrationDeletes ==
    Ran("initialize") =>
        /\ \A i \in Deleting :
               run.steps[i].on = "users" /\ run.result.schema.needs_migration
        /\ run.before.tables \ {"users"} \subseteq db.tables
        /\ run.before.cats \subseteq db.cats
        /\ Deleting = {} =>
               run.before.tables \subseteq db.tables /\ run.before.users \subseteq db.users

C23_Witness ==
    /\ Ran("initialize")
    /\ env.file = "schema_seed"
    /\ run.before.users # {}
    /\ Cardinality(Deleting) = 1
    /\ db.users \cap run.before.users = {}

\* the INSERT statements of this run into categories that succeeded
Seeded == {i \in StepsWhere("INSERT", "categories") : run.steps[i].ok}

\* before statement i the run counted the rows of categories and the table
\* held none
CountedEmptyBefore(i) ==
    \E j \in 1..(i - 1) :
        /\ run.steps[j].kind \in {"COUNT", "SELECT"}
        /\ run.steps[j].on = "categories"
        /\ run.steps[j].ok
        /\ run.before.cats = {}
        /\ \A k \in Seeded : k > j

\* C24: seeding inserts reference categories only after count_rows on
\* categories returned 0, and no reference category is inserted twice
C24_SeedsOnlyWhenEmpty ==
    Ran("initialize") =>
        /\ \A i \in StepsWhere("INSERT", "categories") : CountedEmptyBefore(i)
        /\ \A i, j \in Seeded : run.steps[i].arg = run.steps[j].arg => i = j
        /\ \A i \in Seeded : run.steps[i].arg \notin run.before.cats

\* the existence check at step i found table t, or the CREATE of t followed
CheckedOrCreated(i, t) ==
    \/ run.steps[i].ok
    \/ /\ i < Len(run.steps)
       /\ run.steps[i + 1].kind = "CREATE"
       /\ run.steps[i + 1].on = t

\* C25: every run of table creation checks each of the seven required
\* tables and attempts the CREATE of each one found missing, whatever
\* failed for the tables before it
C25_EveryTableProcessed ==
    /\ Ran("create_tables_inline") =>
           \A t \in AllTables :
               /\ StepsWhere("EXISTS", t) # {}
               /\ LET i == CHOOSE j \in StepsWhere("EXISTS", t) :
                               \A k \in StepsWhere("EXISTS", t) : j <= k
                  IN  CheckedOrCreated(i, t)
    /\ Ran("initialize") =>
           \A t \in AllTables : \E i \in StepsWhere("EXISTS", t) : CheckedOrCreated(i, t)

C25_Witness ==
    /\ Ran("create_tables_inline")
    /\ HasError("create", "users")
    /\ HasError("create", "categories")
    /\ StepsWhere("CREATE", "status_checks") # {}
    /\ "status_checks" \in db.tables

\* the order of creation as documented
ClaimedOrder ==
    <<"users", "categories", "transactions", "budgets", "sms_import_logs",
      "duplicate_logs", "status_checks">>

\* the first statement of this run about table t
FirstStepOn(t) ==
    CHOOSE i \in 1..Len(run.steps) :
        /\ run.steps[i].on = t
        /\ \A j \in 1..(i - 1) : run.steps[j].on # t

\* C26: table creation takes the tables in the order users, categories,
\* transactions, budgets, sms_import_logs, duplicate_logs, status_checks, so
\* the CREATE of a table is attempted only after the check-or-create step of
\* every other table it references
C26_FixedCreationOrder ==
    /\ Ran("create_tables_inline") =>
           /\ \A t \in AllTables : \E i \in 1..Len(run.steps) : run.steps[i].on = t
           /\ \A a, b \in 1..Len(ClaimedOrder) :
                  a < b => FirstStepOn(ClaimedOrder[a]) < FirstStepOn(ClaimedOrder[b])
    /\ (Ran("create_tables_inline") \/ Ran("initialize")) =>
           \A t \in AllTables : \A i \in StepsWhere("CREATE", t) :
               \A r \in References(t) :
                   \E j \in 1..(i - 1) :
                       run.steps[j].on = r /\ run.steps[j].kind \in {"EXISTS", "CREATE"}

C26_Witness ==
    /\ Ran("create_tables_inline")
    /\ run.before = Pristine
    /\ run.fault = NoFault
    /\ \A t \in AllTables : StepsWhere("CREATE", t) # {}
    /\ db.tables = AllTables

\* the first existence check of table t in this run
FirstCheck(t) ==
    CHOOSE i \in StepsWhere("EXISTS", t) : \A k \in StepsWhere("EXISTS", t) : i <= k

\* C27: the existence check returns present exactly when SELECT * FROM
\* <table> LIMIT 1 succeeds and missing for every failure of that query,
\* whatever its text, and the caller goes on with that answer
C27_ExistsIffSelectSucceeds ==
    /\ Ran("check_users_table_schema") =>
           /\ run.steps[1].kind = "EXISTS"
           /\ run.result.schema.exists <=> run.steps[1].ok
    /\ Ran("create_tables_inline") =>
           \A t \in AllTables :
               /\ StepsWhere("EXISTS", t) # {}
               /\ run.steps[FirstCheck(t)].ok <=> StepsWhere("CREATE", t) = {}

C27_Witness ==
    /\ Ran("check_users_table_schema")
    /\ "users" \in db.tables
    /\ ~run.steps[1].ok
    /\ ~SaysMissing(Lower(run.steps[1].err))
    /\ ~run.result.schema.exists

\* the INSERT statements into categories that seed_default_categories
\* issued in this run: those after the last verification pass
SeedInserts ==
    {i \in StepsWhere("INSERT", "categories") : \A j \in VerifyPasses : i > j}

\* C28: seed_default_categories attempts the INSERT of every reference
\* category, whichever of them fail, and categories_seeded is the number of
\* its INSERT statements that succeeded
C28_EachCategoryIndependently ==
    Ran("initialize") =>
        /\ SeedInserts # {} =>
               \A k \in 1..Len(DefaultCategories) :
                   \E i \in SeedInserts : run.steps[i].arg = DefaultCategories[k]
        /\ run.result.categories_seeded =
               Cardinality({i \in SeedInserts : run.steps[i].ok})

C28_Witness ==
    /\ Ran("initialize")
    /\ \E i, j \in SeedInserts : i < j /\ ~run.steps[i].ok /\ run.steps[j].ok
    /\ run.result.categories_seeded = Len(DefaultCategories) - 1

(***************************************************************************)
(* Aggregation against a store whose support of native aggregates changes  *)
(* between calls (pesadb_fallbacks.py lines 17-18, 67-98, 509-588).        *)
(***************************************************************************)
\* what the store of deployment e does with a native COUNT
NativeCount(e) ==
    IF e.count_native THEN Answers("count") ELSE Fails(SyntaxNear("COUNT"))

\* count_rows_safe that skips the native form once the snapshot or the call
\* before it saw the store refuse COUNT
CountRowsRemembering(tbl, where, e, seen) ==
    IF seen.by_snapshot = "unsupported" \/ seen.by_call = "unsupported"
    THEN Bind(QueryFetch(tbl, {"*"}, where, Answers("rows")), LAMBDA r2 :
             Result(<<Issued(SelectSql({"*"}, where), r2)>>, Return(Num(Len(r2.rows)))))
    ELSE CountRowsRun(tbl, where, NativeCount(e), Answers("rows"), Answers("rows"))

\* one call of count_rows_safe against the store of deployment e, seen being
\* what the snapshot and the earlier calls observed: the function has no
\* parameter, global or cache that carries it
CountRowsAgainst(tbl, where, e, seen) ==
    CountRowsRun(tbl, where, NativeCount(e), Answers("rows"), Answers("rows"))

\* what a call that issued tr saw of the store
SeenBy(tr) ==
    IF tr[1].sql.what = "SELECT" THEN "nothing"
    ELSE IF tr[1].resp.ok THEN "native" ELSE "unsupported"

count_rows_of_store ==
    /\ pc = "idle"
    /\ \E where \in Wheres :
         \E r \in {CountRowsAgainst(table, where, env, observed)} :
            /\ pc' = "done"
            /\ call' = CountCall(where)
            /\ trace' = r.trace
            /\ outcome' = r.outcome
            /\ observed' = [observed EXCEPT !.by_call = SeenBy(r.trace),
                                            !.by_call_before = observed.by_call]
    /\ UNCHANGED <<table, env, db, run, prev, inst>>

\* lines 541-585: the probes in the order they are sent; MIN stands for the
\* probe of MIN and MAX together
Probes == <<"COUNT", "SUM", "AVG", "MIN", "GROUP BY", "HAVING">>

ProbeNames == {Probes[i] : i \in 1..Len(Probes)}

\* lines 545, 552, 559, 566-567, 574, 581: the flags a probe sets
FlagsOf(p) ==
    CASE p = "COUNT" -> {"count"}
      [] p = "SUM" -> {"sum"}
      [] p = "AVG" -> {"avg"}
      [] p = "MIN" -> {"min", "max"}
      [] p = "GROUP BY" -> {"group_by"}
      [] OTHER -> {"having"}

\* lines 530-538
Flags == UNION {FlagsOf(p) : p \in ProbeNames}

\* the probe statement on categories
ProbeSql(p) ==
    Sql(p, {"id"}, "", IF p \in {"GROUP BY", "HAVING"} THEN "is_default" ELSE "",
        IF p = "HAVING" THEN <<"COUNT(*)", ">", "0">> ELSE <<>>, <<>>)

\* what the gateway does with a probe
ProbeBehaviors == {Answers("rows"), Fails(ConnectionError), Fails(SyntaxOther)}

\* lines 526-528 and 565: the MIN/MAX probe names query_db, not query_func;
\* the import of line 527 makes query_db a local of the function, bound only
\* when no query function was supplied, so with a supplied function the
\* statement of line 565 raises before anything is sent and the bare except
\* of line 568 swallows it
ProbeSent(p, supplied) == p # "MIN" \/ ~supplied

\* one call of detect_pesadb_capabilities: b[p] is what the gateway does
\* with probe p, supplied whether the caller passed a query function
DetectCapabilities(supplied, b) ==
    [caps |-> [f \in Flags |->
                  \E p \in ProbeNames :
                      f \in FlagsOf(p) /\ ProbeSent(p, supplied) /\ ~b[p].fail],
     trace |-> LET sent == SelectSeq(Probes, LAMBDA p : ProbeSent(p, supplied))
               IN  [i \in 1..Len(sent) |->
                       Issued(ProbeSql(sent[i]),
                              IF b[sent[i]].fail THEN Err(b[sent[i]].err) ELSE Ok(<<>>))]]

\* lines 509-588 as server.py lines 238-256 call it at startup: the flags
\* are built in a local dict and returned to the caller, which logs them
detect_pesadb_capabilities ==
    /\ pc = "idle"
    /\ \E r \in {DetectCapabilities(TRUE, [p \in ProbeNames |-> NativeCount(env)])} :
          observed' = [observed EXCEPT !.by_snapshot =
                          IF r.caps["count"] THEN "native" ELSE "unsupported"]
    /\ UNCHANGED <<table, pc, call, trace, outcome, env, db, run, prev, inst>>

\* the store is replaced by a version that supports, or no longer supports,
\* native aggregates
StoreVersionChanges ==
    /\ pc = "idle"
    /\ env' = [env EXCEPT !.count_native = ~@]
    /\ UNCHANGED <<table, pc, call, trace, outcome, db, run, prev, observed, inst>>

InitCapability ==
    /\ table \in Tables
    /\ pc = "idle"
    /\ call = NoCall
    /\ trace = <<>>
    /\ outcome = NoOutcome
    /\ env \in {DefaultEnv, [DefaultEnv EXCEPT !.count_native = FALSE]}
    /\ db = Pristine
    /\ run = NoRun
    /\ prev = NoPrev
    /\ observed = NothingObserved
    /\ inst = NoInstances

NextCapability ==
    count_rows_of_store \/ detect_pesadb_capabilities \/ StoreVersionChanges \/ Consume

SpecCapability == InitCapability /\ [][NextCapability]_vars

Instances == {"A", "B"}

NoStatement == [counted |-> "", kind |-> "", ok |-> TRUE, on |-> ""]

\* the locals of a run that has not sent a statement yet; last is the
\* statement sent last and what the code counted its table as
Fresh ==
    [created |-> 0, errors |-> <<>>, fallback |-> FALSE, has_email |-> FALSE,
     k |-> 0, last |-> NoStatement, migrated |-> FALSE, ok |-> TRUE,
     pos |-> "check_users", seeded |-> 0, skipped |-> 0,
     success |-> FALSE, user_created |-> FALSE, verified |-> FALSE]

Sent(kind, on, resp, counted) ==
    [counted |-> counted, kind |-> kind, ok |-> resp.ok, on |-> on]

Moved(s, d) == [db |-> d, me |-> s]

\* lines 855-875 with 76-131: the schema check of users, one statement at a
\* time; the migration, which no run starts from a store without tables, is
\* taken whole
SchemaCheckStep(s, d, e) ==
    CASE s.pos = "check_users" ->
           Bind(StoreSelect1(d, NoFault, "users"), LAMBDA r :
               Moved([s EXCEPT !.last = Sent("EXISTS", "users", r, ""),
                               !.pos = IF table_exists(r) THEN "probe_email" ELSE "load"],
                     d))
      [] s.pos = "probe_email" ->
           Bind(StoreProbe(d, NoFault, "email"), LAMBDA r :
               Moved([s EXCEPT !.last = Sent("PROBE", "users", r, ""),
                               !.has_email = r.ok, !.pos = "probe_hash"], d))
      [] s.pos = "probe_hash" ->
           Bind(StoreProbe(d, NoFault, "password_hash"), LAMBDA r :
               Moved([s EXCEPT !.last = Sent("PROBE", "users", r, ""),
                               !.pos = IF s.has_email /\ r.ok THEN "load" ELSE "migrate"],
                     d))
      [] OTHER ->
           Bind(migrate_users_table(d, e, NoFault), LAMBDA m :
               Moved([s EXCEPT !.last = Sent("MIGRATE", "users", m, ""),
                               !.migrated = m.ok,
                               !.errors = IF m.ok THEN @
                                          ELSE Append(@, Error("migration", "users")),
                               !.pos = "load"],
                     m.db))

\* the tables of the CREATE statements the run works through
TablesOf(s, e) ==
    IF s.fallback \/ e.file = "absent" THEN RequiredTables ELSE FileCreates(e)

\* lines 372 and 636: after the last table the INSERT statements of the file
\* follow, or the verification
NextTable(s, e) ==
    IF s.k < Len(TablesOf(s, e)) THEN [s EXCEPT !.pos = "find", !.k = @ + 1]
    ELSE IF e.file # "absent" /\ ~s.fallback THEN [s EXCEPT !.pos = "load_again"]
    ELSE [s EXCEPT !.pos = "verify", !.k = 1, !.ok = TRUE]

\* a CREATE that failed counted as an error whatever its text
RefusedAsError(s, t, resp) ==
    [s EXCEPT !.last = Sent("CREATE", t, resp, "error"),
              !.errors = Append(@, Error("create", t))]

\* lines 611-634 (and 346-368): the CREATE of t failed with resp
Refused(s, t, resp) ==
    IF MeansExists(Lower(resp.err))
    THEN [s EXCEPT !.last = Sent("CREATE", t, resp, "skipped"),
                   !.skipped = @ + 1]
    ELSE [s EXCEPT !.last = Sent("CREATE", t, resp, "error"),
                   !.errors = Append(@, Error("create", t))]

\* lines 576-609 (and 300-345): the check, the CREATE and the re-check of
\* table k, each its own statement
CreateTableStep(s, d, e) ==
    Bind(TablesOf(s, e)[s.k], LAMBDA t :
        CASE s.pos = "find" ->
               Bind(StoreSelect1(d, NoFault, t), LAMBDA r :
                   IF table_exists(r)
                   THEN Moved(NextTable([s EXCEPT !.last = Sent("EXISTS", t, r, "skipped"),
                                                  !.skipped = @ + 1], e), d)
                   ELSE Moved([s EXCEPT !.last = Sent("EXISTS", t, r, ""),
                                        !.pos = "create"], d))
          [] s.pos = "create" ->
               Bind(StoreCreate(d, e, NoFault, t), LAMBDA cr :
                   IF ~cr.resp.ok THEN Moved(NextTable(Refused(s, t, cr.resp), e), cr.db)
                   ELSE Moved([s EXCEPT !.last = Sent("CREATE", t, cr.resp, ""),
                                        !.pos = "recheck"], cr.db))
          [] OTHER ->
               Bind(StoreSelect1(d, NoFault, t), LAMBDA r :
                   IF table_exists(r)
                   THEN Moved(NextTable([s EXCEPT !.last = Sent("EXISTS", t, r, "created"),
                                                  !.created = @ + 1], e), d)
                   ELSE Moved(NextTable([s EXCEPT !.last = Sent("EXISTS", t, r, "error"),
                                                  !.errors = Append(@, Error("verify", t))],
                                        e), d)))

\* lines 276-290 and 373-379, 396-443: the reading of the schema file, and
\* its INSERT statements one at a time
FileStep(s, d, e) ==
    CASE s.pos = "load" ->
           Moved([s EXCEPT !.last = Sent("LOAD", "init_pesadb.sql", LoadStep(e), ""),
                           !.pos = "find", !.k = 1], d)
      [] s.pos = "load_again" ->
           Moved([s EXCEPT !.last = Sent("LOAD", "init_pesadb.sql", LoadStep(e), ""),
                           !.pos = "insert", !.k = 1], d)
      [] OTHER ->
           Bind(FileInserts(e), LAMBDA inserts :
           Bind(inserts[s.k], LAMBDA i :
           Bind(IF i.on = "users" THEN StoreInsertUser(d, NoFault, i.id)
                ELSE StoreInsertCategory(d, e, NoFault, i.id), LAMBDA r :
               Moved([s EXCEPT !.last = Sent("INSERT", i.on, r.resp, ""),
                               !.errors = IF ~r.resp.ok
                                             /\ ~InsertIsDuplicate(Lower(r.resp.err))
                                             /\ InsertIsForeignKey(Lower(r.resp.err))
                                          THEN Append(@, Error("foreign_key", i.on))
                                          ELSE @,
                               !.pos = IF s.k < Len(inserts) THEN "insert" ELSE "verify",
                               !.k = IF s.k < Len(inserts) THEN @ + 1 ELSE 1,
                               !.ok = TRUE],
                     r.db))))

\* lines 893-923 with 717-755: the check of required table k; after the last
\* one the run goes on to the seeding, to the inline statements or ends
VerifyStep(s, d, e) ==
    Bind(StoreSelect1(d, NoFault, RequiredTables[s.k]), LAMBDA r :
        LET ok == s.ok /\ table_exists(r)
            seen == [s EXCEPT !.last = Sent("EXISTS", RequiredTables[s.k], r, ""),
                              !.ok = ok]
        IN  IF s.k < Len(RequiredTables) THEN Moved([seen EXCEPT !.k = @ + 1], d)
            ELSE IF ok THEN Moved([seen EXCEPT !.verified = TRUE, !.pos = "seed_count"], d)
            ELSE IF s.created = 0 /\ ~s.fallback
            THEN Moved([seen EXCEPT !.errors = Append(@, Error("verification", "")),
                                    !.fallback = TRUE, !.created = 0, !.skipped = 0,
                                    !.pos = "find", !.k = 1], d)
            ELSE Moved([seen EXCEPT !.errors = Append(@, Error("verification", "")),
                                    !.pos = "done"], d))

\* lines 640-715, one statement at a time: the count of categories, the
\* lookup and the INSERT of the system user, the INSERT of category k
SeedStep(s, d, e) ==
    CASE s.pos = "seed_count" ->
           Bind(CountOf(d, e, "categories", d.cats), LAMBDA c :
               Moved([s EXCEPT !.last = Sent("COUNT", "categories", Ok(<<>>), ""),
                               !.pos = IF c.outcome.kind = "raise" THEN "user_count"
                                       ELSE IF c.outcome.val.n > 0 THEN "user_count"
                                       ELSE "seed_user_check"], d))
      [] s.pos = "seed_user_check" ->
           Bind(IF "users" \in d.tables THEN Ok(<<>>) ELSE Err(NotFound("users")),
                LAMBDA su :
               Moved([s EXCEPT !.last = Sent("SELECT", "users", su, ""),
                               !.pos = IF ~su.ok THEN "user_count"
                                       ELSE IF "system" \in d.users THEN "seed_insert"
                                       ELSE "seed_user_insert",
                               !.k = 1], d))
      [] s.pos = "seed_user_insert" ->
           Bind(StoreInsertUser(d, NoFault, "system"), LAMBDA r :
               Moved([s EXCEPT !.last = Sent("INSERT", "users", r.resp, ""),
                               !.pos = IF r.resp.ok THEN "seed_insert" ELSE "user_count",
                               !.k = 1], r.db))
      [] OTHER ->
           Bind(StoreInsertCategory(d, e, NoFault, DefaultCategories[s.k]), LAMBDA r :
               Moved([s EXCEPT !.last = Sent("INSERT", "categories", r.resp, ""),
                               !.seeded = @ + (IF r.resp.ok THEN 1 ELSE 0),
                               !.pos = IF s.k < Len(DefaultCategories) THEN "seed_insert"
                                       ELSE "user_count",
                               !.k = IF s.k < Len(DefaultCategories) THEN @ + 1 ELSE 1],
                     r.db))

\* lines 757-815 and 961-963: the count of users and the INSERT of the
\* default user under the identifier id the run drew; then the run ends
DefaultUserStep(s, d, e, id) ==
    IF s.pos = "user_count"
    THEN Bind(get_user_count(d, e), LAMBDA c :
             IF c.outcome.kind = "raise" \/ c.outcome.val.n > 0
             THEN Moved([s EXCEPT !.last = Sent("COUNT", "users", Ok(<<>>), ""),
                                  !.success = TRUE, !.pos = "done"], d)
             ELSE Moved([s EXCEPT !.last = Sent("COUNT", "users", Ok(<<>>), ""),
                                  !.pos = "user_insert"], d))
    ELSE Bind(StoreInsertUser(d, NoFault, id), LAMBDA r :
             Moved([s EXCEPT !.last = Sent("INSERT", "users", r.resp, ""),
                             !.user_created = r.resp.ok,
                             !.success = TRUE, !.pos = "done"], r.db))

\* instance i takes the step r
Took(i, r) ==
    /\ inst' = [inst EXCEPT ![i] = r.me]
    /\ db' = r.db
    /\ UNCHANGED <<table, pc, call, trace, outcome, env, run, prev, observed>>

CheckingSchema(i) ==
    /\ inst[i].pos \in {"check_users", "probe_email", "probe_hash", "migrate"}
    /\ \E r \in {SchemaCheckStep(inst[i], db, env)} : Took(i, r)

ReadingFile(i) ==
    /\ inst[i].pos \in {"load", "load_again", "insert"}
    /\ \E r \in {FileStep(inst[i], db, env)} : Took(i, r)

CreatingTable(i) ==
    /\ inst[i].pos \in {"find", "create", "recheck"}
    /\ \E r \in {CreateTableStep(inst[i], db, env)} : Took(i, r)

Verifying(i) ==
    /\ inst[i].pos = "verify"
    /\ \E r \in {VerifyStep(inst[i], db, env)} : Took(i, r)

Seeding(i) ==
    /\ inst[i].pos \in {"seed_count", "seed_user_check", "seed_user_insert", "seed_insert"}
    /\ \E r \in {SeedStep(inst[i], db, env)} : Took(i, r)

CreatingDefaultUser(i) ==
    /\ inst[i].pos \in {"user_count", "user_insert"}
    /\ \E r \in {DefaultUserStep(inst[i], db, env, "admin-" \o i)} : Took(i, r)

\* one statement of instance i
InstanceStep(i) ==
    \/ CheckingSchema(i)
    \/ ReadingFile(i)
    \/ CreatingTable(i)
    \/ Verifying(i)
    \/ Seeding(i)
    \/ CreatingDefaultUser(i)

\* both instances start on a store without tables; the schema file is there
\* or not
InitConcurrent ==
    /\ table = <<>>
    /\ pc = "idle"
    /\ call = NoCall
    /\ trace = <<>>
    /\ outcome = NoOutcome
    /\ env \in {e \in Envs : e.count_native /\ e.ref_text = ForeignKeyError}
    /\ db = Pristine
    /\ run = NoRun
    /\ prev = NoPrev
    /\ observed = NothingObserved
    /\ inst = [i \in Instances |-> Fresh]

NextConcurrent == \E i \in Instances : InstanceStep(i)

SpecConcurrent == InitConcurrent /\ [][NextConcurrent]_vars

\* the event loop of each process resumes the coroutine whenever the gateway
\* has answered, and every statement is answered or fails within the timeout
\* of the gateway
SpecConcurrentFair ==
    SpecConcurrent /\ \A i \in Instances : WF_vars(InstanceStep(i))

BothDone == \A i \in Instances : inst[i].pos = "done"

AllTablesExist == db.tables = {RequiredTables[k] : k \in 1..Len(RequiredTables)}

\* the CREATE an instance sent last was refused because the table was there
LostRace(i) ==
    /\ inst[i].last.kind = "CREATE"
    /\ ~inst[i].last.ok
    /\ inst[i].last.on \in db.tables

ConcurrentRunsSafe ==
    /\ BothDone => AllTablesExist /\ \A i \in Instances : inst[i].verified
    /\ \A i \in Instances :
          LostRace(i) => inst[i].last.counted = "skipped" /\ inst[i].errors = <<>>

\* C30: two instances that run schema initialization concurrently against a
\* store without tables both terminate in every interleaving; at the end the
\* seven tables exist and both reports have verified = True; a run whose
\* CREATE is refused because the other run created the table first counts
\* the table as skipped and records no error.
C30_ConcurrentRunsConverge == []ConcurrentRunsSafe /\ <>BothDone

\* one run has ended verified, and the other one, which found the last table
\* missing before the first created it, has just had its CREATE refused and
\* goes on to its verification
C30_Witness ==
    \E i, j \in Instances :
        /\ inst[j].pos = "done" /\ inst[j].verified /\ inst[j].success
        /\ LostRace(i)
        /\ inst[i].last.counted = "skipped"
        /\ inst[i].pos = "verify"
        /\ AllTablesExist

DetectCall(supplied) == [op |-> "detect_capabilities", query_func |-> supplied]

\* detect_pesadb_capabilities(query_func) with what the gateway does with
\* each probe drawn freely; the call returns the flags
detect_capabilities ==
    /\ pc = "idle"
    /\ \E supplied \in BOOLEAN, b \in [ProbeNames -> ProbeBehaviors] :
          \E r \in {DetectCapabilities(supplied, b)} :
              Finish(DetectCall(supplied), r.trace, ReturnRows(<<r.caps>>))

InitProbes ==
    /\ table = <<>>
    /\ pc = "idle"
    /\ call = NoCall
    /\ trace = <<>>
    /\ outcome = NoOutcome
    /\ env = DefaultEnv
    /\ db = Pristine
    /\ run = NoRun
    /\ prev = NoPrev
    /\ observed = NothingObserved
    /\ inst = NoInstances

NextProbes == detect_capabilities \/ Consume

SpecProbes == InitProbes /\ [][NextProbes]_vars

Detected == pc = "done" /\ call.op = "detect_capabilities"

\* the answer the call got to probe p, if it sent it
SentProbe(p) == {i \in 1..Len(trace) : trace[i].sql = ProbeSql(p)}

\* C32: the capability map equals the vector of the probe outcomes: each of
\* the six probes is sent through the query function whatever became of the
\* others, each flag is True exactly when its probe succeeded (min and max
\* following the MIN/MAX probe), and the call returns.
C32_FlagsEqualProbeOutcomes ==
    Detected =>
        /\ outcome.kind = "return"
        /\ Len(trace) = Len(Probes)
        /\ \A i \in 1..Len(Probes) :
              /\ trace[i].sql = ProbeSql(Probes[i])
              /\ \A f \in FlagsOf(Probes[i]) : outcome.rows[1][f] = trace[i].resp.ok

\* the part of C32 that holds: the call returns, and every probe other than
\* MIN/MAX is sent whatever became of the others and decides its flag
C32_OtherProbesIndependent ==
    Detected =>
        /\ outcome.kind = "return"
        /\ \A p \in ProbeNames \ {"MIN"} :
              /\ Cardinality(SentProbe(p)) = 1
              /\ \A i \in SentProbe(p), f \in FlagsOf(p) :
                    outcome.rows[1][f] = trace[i].resp.ok

\* with a supplied query function the MIN/MAX probe is not sent and both
\* flags are False
C32_MinMaxNeverProbed ==
    Detected /\ call.query_func => SentProbe("MIN") = {} /\ ~outcome.rows[1]["min"]
                                   /\ ~outcome.rows[1]["max"]

(***************************************************************************)
(* Repair script (backend/scripts/verify_database_schema.py)               *)
(***************************************************************************)
\* database_initializer.py lines 18-973: the methods of DatabaseInitializer
InitializerMethods ==
    {"ensure_database_exists", "table_exists", "check_users_table_schema",
     "migrate_users_table", "load_sql_from_file", "parse_sql_statements",
     "is_create_table_statement", "extract_table_name_from_create", "create_tables",
     "create_tables_inline", "seed_default_categories", "verify_database",
     "create_default_user", "initialize_database"}

\* verify_database_schema.py lines 41-63: the tables of EXPECTED_SCHEMAS in
\* the order of the dict
ExpectedTables == RequiredTables

\* DROP TABLE t; a store that enforces references (strict) refuses to drop a
\* table that another table names
StoreDropTable(d, t, strict) ==
    IF t \notin d.tables THEN [db |-> d, resp |-> Err(NotFound(t))]
    ELSE IF strict /\ \E u \in d.tables \ {t} : t \in References(u)
    THEN [db |-> d, resp |-> Err(ForeignKeyError)]
    ELSE [db |-> [d EXCEPT !.tables = @ \ {t},
                           !.user_cols = IF t = "users" THEN {} ELSE @,
                           !.users = IF t = "users" THEN {} ELSE @,
                           !.cats = IF t = "categories" THEN {} ELSE @],
          resp |-> Ok(<<>>)]

\* lines 195-201: every table is dropped, a failure is logged
RECURSIVE DropLoop(_, _, _)
DropLoop(names, strict, acc) ==
    IF names = <<>> THEN acc
    ELSE Bind(StoreDropTable(acc.db, Head(names), strict), LAMBDA r :
             DropLoop(Tail(names), strict,
                      [db |-> r.db,
                       steps |-> Append(acc.steps, St("DROP", Head(names), "", r.resp))]))

\* lines 174-219: force is force_recreate, answer what is typed at the
\* prompt.  Line 208 calls DatabaseInitializer.initialize(): the lookup of a
\* name that is not a method of the class raises AttributeError, which the
\* except of line 217 turns into False
RepairDatabase(d, e, force, answer, strict) ==
    IF force /\ answer # "YES" THEN [db |-> d, ok |-> FALSE, steps |-> <<>>]
    ELSE Bind(IF force THEN DropLoop(ExpectedTables, strict, [db |-> d, steps |-> <<>>])
              ELSE [db |-> d, steps |-> <<>>], LAMBDA dr :
             IF "initialize" \in InitializerMethods
             THEN Bind(Passes(dr.db, e, NoFault), LAMBDA p :
                  Bind(AfterVerification(p, e, NoFault, TRUE, TRUE), LAMBDA r :
                      [db |-> r.db, ok |-> r.result.success, steps |-> dr.steps \o r.steps]))
             ELSE [db |-> dr.db, ok |-> FALSE, steps |-> dr.steps])

RepairMode(force, answer) ==
    [kind |-> IF force THEN "force_recreate" ELSE "repair", on |-> answer]

repair_database ==
    \E force \in BOOLEAN, answer \in {"YES", "no"}, strict \in BOOLEAN :
        \E r \in {RepairDatabase(db, env, force, answer, strict)} :
            Started("repair_database", RepairMode(force, answer), FALSE, FALSE, r.db,
                    [NoResult EXCEPT !.success = r.ok], r.steps)

\* the stores the script is run on: any of the required tables may be missing
RepairStores ==
    {[cats |-> {}, tables |-> ts,
      user_cols |-> IF "users" \in ts THEN AuthColumns ELSE {}, users |-> {}] :
        ts \in SUBSET {RequiredTables[i] : i \in 1..Len(RequiredTables)}}

InitRepair ==
    /\ table = <<>>
    /\ pc = "idle"
    /\ call = NoCall
    /\ trace = <<>>
    /\ outcome = NoOutcome
    /\ env = DefaultEnv
    /\ db \in RepairStores
    /\ run = NoRun
    /\ prev = NoPrev
    /\ observed = NothingObserved
    /\ inst = NoInstances

NextRepair == repair_database

SpecRepair == InitRepair /\ [][NextRepair]_vars

Repaired ==
    /\ Ran("repair_database")
    /\ ~(run.fault.kind = "force_recreate" /\ run.fault.on # "YES")

\* C33: repair_database never leaves the store with fewer required tables
\* than it found: after the drops it runs the standard initialization, so on
\* a store that accepts CREATE every required table that was missing or was
\* dropped exists again when it returns, and it returns True exactly when
\* the initialization reported success.
C33_RepairRestoresTables ==
    Repaired =>
        /\ run.before.tables \subseteq db.tables
        /\ db.tables = {RequiredTables[i] : i \in 1..Len(RequiredTables)}
        /\ run.result.success

\* what the script does: it returns False, creates nothing, and after a
\* confirmed force_recreate only the tables the store refused to drop remain
C33_RepairCreatesNothing ==
    Ran("repair_database") =>
        /\ ~run.result.success
        /\ db.tables \subseteq run.before.tables
        /\ \A i \in 1..Len(run.steps) : run.steps[i].kind = "DROP"

\* ---------------------------------------------------------------------------
\* DROP TABLE users and the schema the table had
\* ---------------------------------------------------------------------------

CurrentBefore == "users" \in run.before.tables /\ run.before.user_cols = AuthColumns

\* C34: initialize_database sends no DROP TABLE users when the users table
\* had both email and password_hash before the run, also when a column probe
\* fails for a reason other than a missing column
C34_NoDropOfCurrentUsers ==
    (Ran("initialize") /\ CurrentBefore) => StepsWhere("DROP", "users") = {}

\* the same for the runs in which the store answers both column probes
C34_NoDropWhenProbesAnswered ==
    (Ran("initialize") /\ CurrentBefore /\ run.fault \notin ProbeFaults) =>
        StepsWhere("DROP", "users") = {}

\* a run whose probe of a present column failed dropped the users table
C34_Dropped ==
    /\ Ran("initialize")
    /\ CurrentBefore
    /\ run.fault = [kind |-> "probe_down", on |-> "email"]
    /\ StepsWhere("DROP", "users") # {}
    /\ run.before.users # {}
    /\ db.users = {}

\* ---------------------------------------------------------------------------
\* A native COUNT that answers with a result that carries no count
\* ---------------------------------------------------------------------------

\* lines 77-95: no row, or a first row without the key count, without the key
\* COUNT(*) and without a numeric value
Unparsable(result) ==
    \/ result = <<>>
    \/ /\ "count" \notin DOMAIN result[1]
       /\ "COUNT(*)" \notin DOMAIN result[1]
       /\ \A k \in DOMAIN result[1] : ~IsNum(result[1][k])

NativeUnparsed == Len(trace) >= 1 /\ trace[1].resp.ok /\ Unparsable(trace[1].resp.rows)

\* C35: when the native COUNT query succeeds with a result that cannot be
\* parsed, count_rows fetches the rows and returns their number
C35_UnparsedCountFallsBack ==
    (Done("count_rows") /\ NativeUnparsed) =>
        /\ Len(trace) >= 2
        /\ trace[2].resp.ok => outcome = Return(Num(Len(trace[2].resp.rows)))

\* what the call does instead: it raises the parsing error after one query
C35_UnparsedCountRaises ==
    (Done("count_rows") /\ NativeUnparsed) =>
        Len(trace) = 1 /\ outcome = Raise(ParsingFailed)

C35_Raised ==
    /\ Done("count_rows")
    /\ trace[1].resp.ok
    /\ trace[1].resp.rows = <<>>
    /\ table # <<>>
    /\ outcome = Raise(ParsingFailed)

\* ---------------------------------------------------------------------------
\* Seeding after a run that seeded some of the default categories
\* ---------------------------------------------------------------------------

AllCategories == {DefaultCategories[i] : i \in 1..Len(DefaultCategories)}

\* an initialize_database with seed_categories that the store served without
\* a fault and that reported success
SeededReliably ==
    /\ Ran("initialize")
    /\ run.seed_categories
    /\ run.fault = NoFault
    /\ run.result.success

PartlySeededBefore == run.before.cats # {} /\ run.before.cats # AllCategories

\* C36: after a successful initialize_database with seed_categories on a
\* store that executes every statement, the 12 default categories exist, also
\* when an earlier run had inserted only some of them
C36_SeedingConverges == SeededReliably => AllCategories \subseteq db.cats

\* the same for the runs that find the schema file, whose INSERT statements
\* are sent again by every run
C36_SchemaFileSeedingConverges ==
    (SeededReliably /\ env.file = "schema_seed") => AllCategories \subseteq db.cats

\* without the schema file a run that finds a category inserts none
C36_InlineSeedingSkips ==
    (SeededReliably /\ env.file = "absent" /\ run.before.cats # {}) =>
        db.cats = run.before.cats /\ run.result.categories_seeded = 0

C36_StillPartlySeeded ==
    /\ SeededReliably
    /\ PartlySeededBefore
    /\ env.file = "absent"
    /\ db.cats = AllCategories \ {"cat-transport"}
    /\ run.result.categories_seeded = 0

\* ---------------------------------------------------------------------------
\* The default user of a run that also seeds the categories
\* ---------------------------------------------------------------------------

\* initialize_database(seed_categories=True, create_default_user=True), the
\* call of server.py lines 143-146 and 207-210, served without a fault on a
\* store without tables
FirstStart ==
    /\ Ran("initialize")
    /\ run.before = Pristine
    /\ run.fault = NoFault
    /\ run.seed_categories
    /\ run.create_default_user

\* C37: after initialize_database(seed_categories=True,
\* create_default_user=True) on a store without tables that executes every
\* statement, the default admin user exists and user_created is True
C37_DefaultUserAfterSeeding ==
    FirstStart => "admin" \in db.users /\ run.result.user_created

\* what the run does instead: the system user is the only user and the
\* INSERT of the default user is never sent
C37_SystemUserSuppressesDefault ==
    FirstStart =>
        /\ db.users = {"system"}
        /\ ~run.result.user_created
        /\ \A i \in StepsWhere("INSERT", "users") : run.steps[i].arg = "system"

\* without seeding the default user is created
C37_DefaultUserWithoutSeeding ==
    (Ran("initialize") /\ run.before = Pristine /\ run.fault = NoFault
        /\ ~run.seed_categories /\ run.create_default_user /\ env.file = "absent") =>
        "admin" \in db.users /\ run.result.user_created

C37_NoDefaultUser ==
    /\ FirstStart
    /\ run.result.success
    /\ run.result.categories_seeded = 12
    /\ "admin" \notin db.users
    /\ ~run.result.user_created

\* ---------------------------------------------------------------------------
\* The counters of create_tables_inline
\* ---------------------------------------------------------------------------

\* C38: after every run of create_tables_inline the tables created, the
\* tables skipped and the entries of the errors list add up to 7
C38_CountersAddUp ==
    Ran("create_tables_inline") =>
        run.result.tables_created + run.result.tables_skipped
            + Len(run.result.errors) = Len(RequiredTables)

\* a run that created, skipped and failed on tables
C38_Witness ==
    /\ Ran("create_tables_inline")
    /\ run.result.tables_created > 0
    /\ run.result.tables_skipped > 0
    /\ Len(run.result.errors) > 0

\* ---------------------------------------------------------------------------
\* The sort of the in-memory groups
\* ---------------------------------------------------------------------------

\* a grouped aggregate with an ORDER BY text whose fetch of the rows succeeded
OrderedFallback ==
    /\ Done("aggregate")
    /\ call.group_by # ""
    /\ call.order_by # <<>>
    /\ FallbackTaken
    /\ trace[2].resp.ok

\* C39: the in-memory path of a grouped aggregate with an ORDER BY text
\* returns for every fetched row set: the sort does not raise, also when the
\* sort value of a group is null
C39_SortNeverRaises == OrderedFallback => outcome.kind = "return"

\* the sort raises only its TypeError, and only with two or more groups
C39_SortRaisesOnlyTypeError ==
    (OrderedFallback /\ outcome.kind = "raise") =>
        outcome = Raise(SortTypeError) /\ Len(trace[2].resp.rows) >= 2

C39_SortRaised ==
    /\ OrderedFallback
    /\ call.order_by[1] = "sum_amount"
    /\ Len(trace[2].resp.rows) = 2
    /\ \E i \in 1..2 : IsNone(Get(trace[2].resp.rows[i], "amount", Num(0)))
    /\ outcome = Raise(SortTypeError)

====
